---- MODULE Spec2Model ----
(***************************************************************************)
(* State-machine model of wsjtx2eqsl.py: the Listener thread (listen_udp,  *)
(* process_qso, upload_to_eqsl, show_upload_error), the Input Handler      *)
(* thread (handle_keyboard, manage_credentials) and the Dashboard (main)   *)
(* thread (draw_status_screen), interleaved statement by statement over    *)
(* the module globals, the terminal and the keyboard input queue.          *)
(***************************************************************************)
EXTENDS Naturals, Sequences, FiniteSets, TLC

(* ------------------------------ bounds --------------------------------- *)

\* datagrams the network delivers in a run of Spec
MaxDatagrams == 2
\* datagrams the network delivers in a run of SpecHist
MaxHistDatagrams == 11
\* keys the user types in a run of Spec
MaxKeys == 2
\* keys typed and not yet read
MaxPending == 1
\* datagrams the network delivers in a run of SpecRecords
MaxRecordDatagrams == 1
\* datagrams the network delivers in a run of SpecMenu
MaxMenuDatagrams == 1
\* keys the user types in a run of SpecMenu
MaxMenuKeys == 3
\* pieces a datagram text is made of in a run of SpecParse
MaxPieces == 3
\* calls of log_message in a run of SpecTrail
MaxLogCalls == 3
\* datagrams the network delivers in a run of SpecLog
MaxLogDatagrams == 1
\* keys the user types in a run of SpecLog
MaxLogKeys == 2

(* ------------------------- program constants --------------------------- *)

\* recent_contacts = recent_contacts[:10]
HistoryMax == 10
\* upload_status = f"Error: {str(e)[:20]}"
ErrSummaryLen == 20
\* log_message(f"Upload failed - {response.text[:100]}")
FailedTextLen == 100
\* log_message(f"Raw Bytes (first 200): {data[:200]}")
RawBytesLen == 200
\* if file_size < 500000: return
LogSizeThreshold == 500000
\* if len(lines) > 1000: ... f.writelines(lines[-1000:])
LogKeepLines == 1000

(* ------------------------------ strings -------------------------------- *)

Min(a, b) == IF a <= b THEN a ELSE b

\* s[:n]
Take(s, n) == SubSeq(s, 1, Min(n, Len(s)))

\* one character of str.lower()
LowerChar(ch) ==
  CASE ch = "A" -> "a" [] ch = "B" -> "b" [] ch = "C" -> "c" [] ch = "D" -> "d"
    [] ch = "E" -> "e" [] ch = "F" -> "f" [] ch = "G" -> "g" [] ch = "H" -> "h"
    [] ch = "I" -> "i" [] ch = "J" -> "j" [] ch = "K" -> "k" [] ch = "L" -> "l"
    [] ch = "M" -> "m" [] ch = "N" -> "n" [] ch = "O" -> "o" [] ch = "P" -> "p"
    [] ch = "Q" -> "q" [] ch = "R" -> "r" [] ch = "S" -> "s" [] ch = "T" -> "t"
    [] ch = "U" -> "u" [] ch = "V" -> "v" [] ch = "W" -> "w" [] ch = "X" -> "x"
    [] ch = "Y" -> "y" [] ch = "Z" -> "z" [] OTHER -> ch

RECURSIVE Lower(_)
\* str.lower()
Lower(s) ==
  IF Len(s) = 0 THEN ""
  ELSE LowerChar(SubSeq(s, 1, 1)) \o Lower(SubSeq(s, 2, Len(s)))

\* sub in s
Contains(s, sub) ==
  \E i \in 1..(Len(s) + 1) :
     /\ i + Len(sub) - 1 <= Len(s)
     /\ SubSeq(s, i, i + Len(sub) - 1) = sub

\* a character \d of a pattern matches
IsDigit(ch) == ch \in {"0", "1", "2", "3", "4", "5", "6", "7", "8", "9"}

\* a character \w of a pattern matches
IsWordChar(ch) ==
  \/ IsDigit(ch)
  \/ ch = "_"
  \/ LowerChar(ch) \in {"a", "b", "c", "d", "e", "f", "g", "h", "i", "j", "k", "l", "m",
                        "n", "o", "p", "q", "r", "s", "t", "u", "v", "w", "x", "y", "z"}

\* re.search(r'<(\w+):(\d+)>', s) finds a match: the tag of parse_all_adif's
\* pattern (line 157)
HasTag(s) ==
  \E i \in 1..Len(s) :
     /\ SubSeq(s, i, i) = "<"
     /\ \E j \in (i + 2)..Len(s) :
          /\ SubSeq(s, j, j) = ":"
          /\ \A n \in (i + 1)..(j - 1) : IsWordChar(SubSeq(s, n, n))
          /\ \E k \in (j + 2)..Len(s) :
               /\ SubSeq(s, k, k) = ">"
               /\ \A d \in (j + 1)..(k - 1) : IsDigit(SubSeq(s, d, d))

(* ------------------------------ parsing -------------------------------- *)

\* s[i-1:i], the i-th character of s
At(s, i) == SubSeq(s, i, i)

\* a character that \s of a pattern matches and str.strip() removes
IsSpace(ch) == ch \in {" ", "\t", "\n", "\r"}

\* str.strip()
Strip(s) ==
  IF \A n \in 1..Len(s) : IsSpace(At(s, n)) THEN ""
  ELSE LET a == CHOOSE n \in 1..Len(s) :
                  ~IsSpace(At(s, n)) /\ \A k \in 1..(n - 1) : IsSpace(At(s, k))
           b == CHOOSE n \in 1..Len(s) :
                  ~IsSpace(At(s, n)) /\ \A k \in (n + 1)..Len(s) : IsSpace(At(s, k))
       IN  SubSeq(s, a, b)

\* the value of one decimal digit
DigitValue(ch) ==
  CASE ch = "0" -> 0 [] ch = "1" -> 1 [] ch = "2" -> 2 [] ch = "3" -> 3
    [] ch = "4" -> 4 [] ch = "5" -> 5 [] ch = "6" -> 6 [] ch = "7" -> 7
    [] ch = "8" -> 8 [] ch = "9" -> 9

RECURSIVE ToInt(_)
\* int(digits) of a string of decimal digits
ToInt(digits) ==
  IF Len(digits) = 0 THEN 0
  ELSE ToInt(SubSeq(digits, 1, Len(digits) - 1)) * 10
         + DigitValue(At(digits, Len(digits)))

\* the position after the longest run of \w characters that starts at i (\w+,
\* greedy)
WordEnd(s, i) ==
  CHOOSE j \in i..(Len(s) + 1) :
     /\ \A n \in i..(j - 1) : IsWordChar(At(s, n))
     /\ j <= Len(s) => ~IsWordChar(At(s, j))

\* the position after the longest run of \d characters that starts at i (\d+,
\* greedy)
DigitEnd(s, i) ==
  CHOOSE j \in i..(Len(s) + 1) :
     /\ \A n \in i..(j - 1) : IsDigit(At(s, n))
     /\ j <= Len(s) => ~IsDigit(At(s, j))

\* the position after the longest run of \s characters that starts at i (\s*,
\* greedy)
SpaceEnd(s, i) ==
  CHOOSE j \in i..(Len(s) + 1) :
     /\ \A n \in i..(j - 1) : IsSpace(At(s, n))
     /\ j <= Len(s) => ~IsSpace(At(s, j))

\* the position after the longest run of characters other than '<' that
\* starts at i ([^<]*, greedy)
ValueEnd(s, i) ==
  CHOOSE j \in i..(Len(s) + 1) :
     /\ \A n \in i..(j - 1) : At(s, n) # "<"
     /\ j <= Len(s) => At(s, j) = "<"

\* the pattern r'<(\w+):(\d+)>\s*([^<]*)' matches at position i of s
\* (line 157); after '>' the rest of the pattern matches any text, so no
\* backtracking is needed
IsMatchAt(s, i) ==
  /\ At(s, i) = "<"
  /\ LET w == WordEnd(s, i + 1)
     IN  /\ w > i + 1 /\ w <= Len(s) /\ At(s, w) = ":"
         /\ LET d == DigitEnd(s, w + 1)
            IN  d > w + 1 /\ d <= Len(s) /\ At(s, d) = ">"

\* the groups of the match at position i and the position where it ends
MatchGroups(s, i) ==
  LET w == WordEnd(s, i + 1)
      d == DigitEnd(s, w + 1)
      v == SpaceEnd(s, d + 1)
      e == ValueEnd(s, v)
  IN  [group1 |-> SubSeq(s, i + 1, w - 1),
       group2 |-> SubSeq(s, w + 1, d - 1),
       group3 |-> SubSeq(s, v, e - 1),
       end    |-> e]

\* re.finditer: there is a match at or after position pos
HasMatchFrom(s, pos) == \E i \in pos..Len(s) : IsMatchAt(s, i)

\* re.finditer: the position of the first match at or after position pos
NextMatch(s, pos) ==
  CHOOSE i \in pos..Len(s) :
     IsMatchAt(s, i) /\ \A k \in pos..(i - 1) : ~IsMatchAt(s, k)

\* a dict in insertion order: fields = {}
EmptyDict == << >>

\* key in d
HasKey(d, key) == \E n \in 1..Len(d) : d[n].key = key

\* d[key] = value: a key already present keeps its place
DictSet(d, key, value) ==
  IF HasKey(d, key)
  THEN [n \in 1..Len(d) |->
          IF d[n].key = key THEN [key |-> key, value |-> value] ELSE d[n]]
  ELSE Append(d, [key |-> key, value |-> value])

\* d[key], for a key of d
DictGet(d, key) == d[CHOOSE n \in 1..Len(d) : d[n].key = key].value

\* Python's None and a value that is not None
None == << >>
Some(v) == << v >>

\* d.get(key, default)
Get(d, key, default) == IF HasKey(d, key) THEN Some(DictGet(d, key)) ELSE default

\* x or y, for x and y None or strings
Or(x, y) == IF x # None /\ x # Some("") THEN x ELSE y

\* variant of ParseValue: the declared length is not applied
ParseValueWhole(group3, length) == Strip(group3)

\* value_text = match.group(3).strip(); value = value_text[:length] if
\* value_text else '' (lines 161-163)
ParseValue(group3, length) ==
  IF Strip(group3) # "" THEN Take(Strip(group3), length) ELSE ""

\* one iteration of the loop of parse_all_adif over the match m
\* (lines 159-164)
ParseMatch(fields, m) ==
  DictSet(fields, Lower(m.group1), ParseValue(m.group3, ToInt(m.group2)))

RECURSIVE ParseFrom(_, _, _)
\* the iterations of the loop of parse_all_adif over the matches at or after
\* position pos
ParseFrom(s, pos, fields) ==
  IF HasMatchFrom(s, pos)
  THEN LET m == MatchGroups(s, NextMatch(s, pos))
       IN  ParseFrom(s, m.end, ParseMatch(fields, m))
  ELSE fields

\* parse_all_adif(adif_text) (lines 154-165)
ParseAllAdif(adif_text) == ParseFrom(adif_text, 1, EmptyDict)

(* --------------------------- activity trail ---------------------------- *)

\* str(datetime.now(timezone.utc)), the clock not being modelled: every line
\* carries the same 32 characters
Timestamp == "2025-01-01 12:00:00.000000+00:00"

\* the line f"{datetime.now(timezone.utc)}: {message}\n" without its newline
\* (line 283)
LogLine(message) == Timestamp \o ": " \o message

\* the line f"# Log rotated - keeping last 1000 entries\n" without its newline
\* (line 311)
RotateHeader == "# Log rotated - keeping last 1000 entries"

RECURSIVE BytesOf(_, _, _)
\* the bytes of the lines a..b of a file, each with its newline
BytesOf(file, a, b) ==
  IF a > b THEN 0
  ELSE IF a = b THEN Len(file[a]) + 1
  ELSE LET mid == (a + b) \div 2
       IN  BytesOf(file, a, mid) + BytesOf(file, mid + 1, b)

\* os.path.getsize(LOG_FILE) (line 299)
FileSize(file) == BytesOf(file, 1, Len(file))

\* lines[-1000:] (line 312)
LastLines(file, n) == SubSeq(file, Len(file) - Min(n, Len(file)) + 1, Len(file))

\* variant of RotateLogIfNeeded: the file is cut whenever it holds more than
\* 1000 lines, whatever its size
RotateByLineCount(file) ==
  IF Len(file) > LogKeepLines
  THEN << RotateHeader >> \o LastLines(file, LogKeepLines)
  ELSE file

\* rotate_log_if_needed() on a file that exists (lines 293-312)
RotateLogIfNeeded(file) ==
  IF FileSize(file) < LogSizeThreshold THEN file
  ELSE IF Len(file) > LogKeepLines
       THEN << RotateHeader >> \o LastLines(file, LogKeepLines)
       ELSE file

\* log_message(message) on a file that can be written (lines 279-287)
LogMessage(file, message) == RotateLogIfNeeded(Append(file, LogLine(message)))

RECURSIVE LogMessages(_, _)
\* successive calls of log_message
LogMessages(file, messages) ==
  IF messages = << >> THEN file
  ELSE LogMessages(LogMessage(file, Head(messages)), Tail(messages))

RECURSIVE Repeat(_, _)
\* s * n
Repeat(s, n) == IF n = 0 THEN "" ELSE s \o Repeat(s, n - 1)

\* listen_udp's structural filter (line 843)
IsAdif(message) ==
  \/ Contains(Lower(message), "<call:")
  \/ (Contains(message, "<") /\ Contains(message, ":") /\ Contains(message, ">"))

(* ------------------------------ inputs --------------------------------- *)

\* decoded, stripped datagram texts the network may deliver
Messages ==
  { "<call:5>K5JCJ<mode:3>FT8<band:3>20m",
    "WSJT-X heartbeat" }

\* the datagram text the network delivers in a run of SpecHist
HistMessages == { "<call:5>K5JCJ<mode:3>FT8<band:3>20m" }

\* the datagram texts of a run of SpecRecords: two records, a text that holds
\* '<', ':' and '>' but no tag, and a text that passes no test of the filter
RecordMessages ==
  { "<call:5>K5JCJ<mode:3>FT8<band:3>20m",
    "<CALL:4>W1AW<MODE:2>CW",
    "QSO logged: <K5JCJ>",
    "WSJT-X heartbeat" }

\* the pieces of the datagram texts of a run of SpecParse: fields whose
\* declared length is that of the value or zero, tags whose declared length
\* is longer or shorter than the value that follows, values, white space, and a
\* tag-like text that passes the filter and that the pattern does not match
ParsePieces ==
  { "<time_off:6>123456", "<time_off:0>", "<time_on:4>2345",
    "<call:100>", "<COMMENT:4>", "K5JCJ", "abc def", " ", "<call:>" }

RECURSIVE Concat(_)
\* ''.join(pieces)
Concat(pieces) ==
  IF pieces = << >> THEN "" ELSE Head(pieces) \o Concat(Tail(pieces))

\* the texts process_qso may be called with in a run of SpecParse: the
\* stripped datagram texts that pass the filter (lines 838, 843-846)
ParseTexts ==
  { m \in { Strip(Concat(pieces)) :
               pieces \in UNION { [1..n -> ParsePieces] : n \in 0..MaxPieces } } :
      IsAdif(m) }

\* a message of n characters, for the calls of log_message of a run of
\* SpecTrail: rotation depends on the lengths of the lines only
MessageOf(n) == Repeat("0123456789", n \div 10) \o Repeat("x", n % 10)

\* the lengths of the messages logged in a run of SpecTrail: with the
\* timestamp and the newline, lines of 100, 500 and 1000 bytes
TrailMessageLengths == {65, 465, 965}

\* the files earlier runs have left, all below the size threshold: none, 4999
\* lines of 100 bytes, 999 lines of 500 bytes, 499 lines of 1000 bytes
ExistingTrails ==
  { << >>,
    [n \in 1..4999 |-> LogLine(MessageOf(65))],
    [n \in 1..999 |-> LogLine(MessageOf(465))],
    [n \in 1..499 |-> LogLine(MessageOf(965))] }

\* the address recvfrom returns with a datagram, as str() shows it
SourceAddress == "('127.0.0.1', 52000)"

\* str(udp_port) of the port main passes to listen_udp (lines 26, 926)
PortText == "2333"

\* response bodies the remote service may return
Bodies ==
  { "RESULT: 1 out of 1 records added",
    "Upload Success",
    "Result: 0 out of 1 records added",
    "Error: No match on eQSL_User/eQSL_Pswd",
    "" }

\* str(e) of the exceptions requests.post may raise (transport failure, timeout)
Causes ==
  { "Connection refused",
    "HTTPSConnectionPool(host='www.eqsl.cc', port=443): Read timed out. (read timeout=30)" }

\* keys the user may type
Keys == {"q", "c", "R", "2"}

\* keys the user may type in a run of SpecMenu: those of Keys and the menu
\* choice 3 (toggle auto-upload)
MenuKeys == Keys \cup {"3"}

\* the credentials main passes to listen_udp (lines 926, 940)
Username == "K5JCJ"
Password == "secret"

\* the password of the twin run: a run of the program that differs from the
\* run modelled in the password only (same datagrams, keys, responses and
\* schedule), and whose LOG_FILE is log_twin
TwinPassword == "hunter2"

\* str(e) of the termios.error raised when stdin is not a terminal
TermiosError == "(25, 'Inappropriate ioctl for device')"

\* str(e) of the OSError raised by bind when the port is taken
BindError == "[Errno 98] Address already in use"

(* ------------------------------- state --------------------------------- *)

VARIABLES
  contact_count,    \* global contact_count
  recent_contacts,  \* global recent_contacts
  last_contact,     \* global last_contact (None before any contact)
  upload_status,    \* global upload_status
  connection_status,\* global connection_status
  running,          \* global running
  show_menu,        \* global show_menu (the Pause Flag)
  AUTO_UPLOAD,      \* global AUTO_UPLOAD
  alive,            \* the process has not exited
  term,             \* terminal settings of stdin: "cooked" or "cbreak"
  tty,              \* stdin is a terminal
  config,           \* the saved configuration (CONFIG_FILE)
  stdin,            \* keys typed and not yet read
  lpc,              \* Listener thread: position
  contact,          \* Listener thread: process_qso's local contact
  tmp,              \* Listener thread: value loaded by contact_count += 1
  stack,            \* Listener thread: frames of upload_to_eqsl / show_upload_error
  response,         \* Listener thread: upload_to_eqsl's response or exception, while in use
  kpc,              \* Input Handler thread: position
  kold,             \* Input Handler thread: handle_keyboard's old_settings
  dpc,              \* Dashboard thread: position
  now,              \* datagrams received so far (the clock of the timestamps)
  accepted,         \* contacts built by process_qso, oldest first
  network,          \* datagram texts the network delivers
  keyboard,         \* keys the user types
  dgramsLeft,       \* datagrams the network will still deliver
  keysLeft,         \* keys the user will still type
  ppc,              \* Listener thread: position in process_qso's parsing, in SpecParse
  adif_text,        \* parse_all_adif's argument
  scan,             \* parse_all_adif: where re.finditer looks for the next match
  match,            \* parse_all_adif: the locals of the last loop iteration
  fields,           \* parse_all_adif's fields
  DEBUG,            \* global DEBUG
  log_file,         \* the lines of LOG_FILE, without their newlines
  log_twin,         \* LOG_FILE of the run that differs in the password only
  log_writable,     \* LOG_FILE can be opened for appending
  logsLeft          \* calls of log_message still to come in a run of SpecTrail

vars == << contact_count, recent_contacts, last_contact, upload_status,
           connection_status, running, show_menu, AUTO_UPLOAD, alive, term, tty,
           config, stdin, lpc, contact, tmp, stack, response, kpc, kold, dpc, now,
           accepted, network, keyboard, dgramsLeft, keysLeft, ppc, adif_text,
           scan, match, fields, DEBUG, log_file, log_twin, log_writable, logsLeft >>

NoResponse == [kind |-> "none", text |-> ""]

\* load_credentials finds no saved configuration
NoConfig == [saved |-> FALSE, auto_upload |-> FALSE]

\* the saved configuration agrees with the flags main has set from it, or
\* written to it (lines 926-930, 132-134)
SavedConfig(auto_upload) == [saved |-> TRUE, auto_upload |-> auto_upload]

\* module globals (lines 31-40) and the three threads of main (lines 939-949)
InitCommon ==
  /\ contact_count = 0
  /\ recent_contacts = << >>
  /\ last_contact = None
  /\ upload_status = "Ready"
  /\ connection_status = "Listening"
  /\ running = TRUE
  /\ show_menu = FALSE
  /\ AUTO_UPLOAD \in BOOLEAN
  /\ alive = TRUE
  /\ term = "cooked"
  /\ stdin = << >>
  /\ contact = "None"
  /\ tmp = 0
  /\ stack = << >>
  /\ response = NoResponse
  /\ kpc = "k_save"
  /\ kold = "none"
  /\ dpc = "test"
  /\ now = 0
  /\ accepted = << >>

\* LOG_FILE cannot be written: log_message swallows the exception of open()
\* and the trail stays as it is (lines 281-291); debug logging is off
\* (line 38)
TrailOff ==
  /\ DEBUG = FALSE
  /\ log_writable = FALSE
  /\ log_file = << >>
  /\ log_twin = << >>
  /\ logsLeft = 0

\* the Listener thread is not in parse_all_adif
ParserIdle ==
  /\ ppc = "idle"
  /\ adif_text = ""
  /\ scan = 1
  /\ match = None
  /\ fields = EmptyDict

\* a session with failing uploads and a user at the keyboard; the socket is
\* bound and stdin is a terminal
Init ==
  /\ InitCommon
  /\ TrailOff
  /\ ParserIdle
  /\ lpc = "recv"
  /\ tty = TRUE
  /\ config = SavedConfig(AUTO_UPLOAD)
  /\ network = Messages
  /\ keyboard = Keys
  /\ dgramsLeft = MaxDatagrams
  /\ keysLeft = MaxKeys

\* a long session in which no key is typed
InitHist ==
  /\ InitCommon
  /\ TrailOff
  /\ ParserIdle
  /\ lpc = "recv"
  /\ tty = TRUE
  /\ config = SavedConfig(AUTO_UPLOAD)
  /\ network = HistMessages
  /\ keyboard = {}
  /\ dgramsLeft = MaxHistDatagrams
  /\ keysLeft = 0

\* a session over distinct records and texts that only resemble a record
InitRecords ==
  /\ InitCommon
  /\ TrailOff
  /\ ParserIdle
  /\ lpc = "recv"
  /\ tty = TRUE
  /\ config = SavedConfig(AUTO_UPLOAD)
  /\ network = RecordMessages
  /\ keyboard = Keys
  /\ dgramsLeft = MaxRecordDatagrams
  /\ keysLeft = MaxKeys

\* the start of listen_udp, with the port free or taken and stdin a terminal
\* or not; no key is typed
InitStartup ==
  /\ InitCommon
  /\ TrailOff
  /\ ParserIdle
  /\ lpc = "bind"
  /\ tty \in BOOLEAN
  /\ config = SavedConfig(AUTO_UPLOAD)
  /\ network = Messages
  /\ keyboard = {}
  /\ dgramsLeft = MaxDatagrams
  /\ keysLeft = 0

\* a session in which the user works in the configuration menu, with or
\* without a saved configuration (lines 132-136)
InitMenu ==
  /\ InitCommon
  /\ TrailOff
  /\ ParserIdle
  /\ lpc = "recv"
  /\ tty = TRUE
  /\ config \in {NoConfig, SavedConfig(AUTO_UPLOAD)}
  /\ network = Messages
  /\ keyboard = MenuKeys
  /\ dgramsLeft = MaxMenuDatagrams
  /\ keysLeft = MaxMenuKeys

\* process_qso has been called with a text that passed the filter and calls
\* parse_all_adif (lines 843-846, 503)
InitParse ==
  /\ InitCommon
  /\ TrailOff
  /\ AUTO_UPLOAD = TRUE
  /\ lpc = "parse"
  /\ tty = TRUE
  /\ config = SavedConfig(AUTO_UPLOAD)
  /\ network = ParseTexts
  /\ keyboard = {}
  /\ dgramsLeft = 0
  /\ keysLeft = 0
  /\ ppc = "call"
  /\ adif_text \in network
  /\ scan = 1
  /\ match = None
  /\ fields = EmptyDict

\* a process that logs onto the file earlier runs have left
InitTrail ==
  /\ InitCommon
  /\ ParserIdle
  /\ AUTO_UPLOAD = TRUE
  /\ lpc = "recv"
  /\ tty = TRUE
  /\ config = SavedConfig(AUTO_UPLOAD)
  /\ network = {}
  /\ keyboard = {}
  /\ dgramsLeft = 0
  /\ keysLeft = 0
  /\ DEBUG = TRUE
  /\ log_writable = TRUE
  /\ log_file \in ExistingTrails
  /\ log_twin = log_file
  /\ logsLeft = MaxLogCalls

(* --------------------------- Listener thread --------------------------- *)

\* variant of IsSuccess: the body is compared without lower()
IsSuccessCaseSensitive(body) ==
  \/ Contains(body, "result: 1")
  \/ Contains(body, "success")

\* upload_to_eqsl's test of the response body (lines 208-210)
IsSuccess(body) ==
  \/ Contains(Lower(body), "result: 1")
  \/ Contains(Lower(body), "success")

\* variant of ErrorSummary: the cause is not cut to 20 characters
ErrorSummaryWhole(cause) == "Error: " \o cause

\* upload_status after an exception (line 226)
ErrorSummary(cause) == "Error: " \o Take(cause, ErrSummaryLen)

\* variant of Increment: the increment is lost
IncrementLost(v) == v

\* contact_count + 1 (line 525)
Increment(v) == v + 1

\* variant of InsertFront: recent_contacts.append(contact)
InsertBack(history, c) == Append(history, c)

\* recent_contacts.insert(0, contact) (line 526)
InsertFront(history, c) == << c >> \o history

\* variant of Truncate: recent_contacts[-10:], which drops the newest contact
TruncateKeepOldest(history) ==
  SubSeq(history, Len(history) - Min(HistoryMax, Len(history)) + 1, Len(history))

\* recent_contacts[:10] (line 527)
Truncate(history) == Take(history, HistoryMax)

\* the arguments adif_data, username and password that process_qso,
\* upload_to_eqsl and show_upload_error hand on (lines 534, 222, 233, 270)
Args(adif_data, username, password) ==
  [adif_data |-> adif_data, username |-> username, password |-> password]

\* a frame of upload_to_eqsl, called by process_qso or by show_upload_error
UploadFrame(caller, args) ==
  [fn |-> "upload_to_eqsl", caller |-> caller, old |-> "none", args |-> args]

\* a frame of show_upload_error, old_settings not yet read
OverlayFrame(args) ==
  [fn |-> "show_upload_error", caller |-> "upload_to_eqsl", old |-> "none",
   args |-> args]

\* process_qso's contact (lines 508-520), with the text it was built from
Contact(adif_data, parsed, timestamp) ==
  [adif      |-> adif_data,
   call      |-> Get(parsed, "call", Some("N/A")),
   mode      |-> Get(parsed, "mode", Some("N/A")),
   band      |-> Get(parsed, "band", Some("N/A")),
   freq      |-> Get(parsed, "freq", None),
   grid      |-> Get(parsed, "gridsquare", None),
   rst_sent  |-> Get(parsed, "rst_sent", None),
   rst_rcvd  |-> Get(parsed, "rst_rcvd", None),
   qso_date  |-> Get(parsed, "qso_date", None),
   time_on   |-> Or(Get(parsed, "time_off", None), Get(parsed, "time_on", None)),
   comment   |-> Get(parsed, "comment", None),
   timestamp |-> timestamp]

\* str(x) of a value that is None or a string, as an f-string shows it
Str(x) == IF x = None THEN "None" ELSE x[1]

\* repr(s) of a string without quotes, backslashes and control characters
ReprStr(s) == "'" \o s \o "'"

\* repr(x) of a value that is None or a string
Repr(x) == IF x = None THEN "None" ELSE ReprStr(x[1])

\* repr of the timestamp of a contact, the clock being the datagram counter
ReprDatetime(timestamp) ==
  "datetime.datetime(" \o ToString(timestamp) \o ", tzinfo=datetime.timezone.utc)"

RECURSIVE JoinItems(_)
\* the items of repr(dict): 'key': value, separated by ', '
JoinItems(items) ==
  IF items = << >> THEN ""
  ELSE ReprStr(Head(items).key) \o ": " \o Head(items).repr
         \o (IF Len(items) > 1 THEN ", " ELSE "") \o JoinItems(Tail(items))

\* repr(fields), as f"{fields}" shows it (line 506)
ReprDict(d) ==
  "{" \o JoinItems([n \in 1..Len(d) |->
                      [key |-> d[n].key, repr |-> ReprStr(d[n].value)]]) \o "}"

\* repr(contact), as f"{contact}" shows it (line 523)
ReprContact(c) ==
  "{" \o JoinItems(<< [key |-> "call", repr |-> Repr(c.call)],
                     [key |-> "mode", repr |-> Repr(c.mode)],
                     [key |-> "band", repr |-> Repr(c.band)],
                     [key |-> "freq", repr |-> Repr(c.freq)],
                     [key |-> "grid", repr |-> Repr(c.grid)],
                     [key |-> "rst_sent", repr |-> Repr(c.rst_sent)],
                     [key |-> "rst_rcvd", repr |-> Repr(c.rst_rcvd)],
                     [key |-> "qso_date", repr |-> Repr(c.qso_date)],
                     [key |-> "time_on", repr |-> Repr(c.time_on)],
                     [key |-> "comment", repr |-> Repr(c.comment)],
                     [key |-> "timestamp", repr |-> ReprDatetime(c.timestamp)] >>)
      \o "}"

\* response.status_code and dict(response.headers) of the response that
\* carries a body, as f-strings show them (lines 204-205)
StatusCode(body) == "200"
Headers(body) == "{'Content-Type': 'text/html; charset=UTF-8'}"

\* type(e).__name__ of the exception whose str(e) is cause (line 230)
ExceptionType(cause) ==
  IF cause = TermiosError THEN "error"
  ELSE IF cause = "Connection refused" THEN "ConnectionError"
  ELSE "ReadTimeout"

\* the calls of log_message made under 'if DEBUG:'
Debug(messages) == IF DEBUG THEN messages ELSE << >>

\* the calls of log_message of one step: the lines are appended if LOG_FILE
\* can be written, else each call swallows its exception (lines 279-291)
Log(messages) ==
  IF log_writable THEN LogMessages(log_file, messages) ELSE log_file

\* the arguments of the same call in the twin run
Twin(args) == [args EXCEPT !.password = TwinPassword]

\* the calls of log_message of the same step in the twin run
TwinLog(messages) ==
  IF log_writable THEN LogMessages(log_twin, messages) ELSE log_twin

\* listen_udp logs a datagram received (lines 832-841)
ReceiveLog(message) ==
  Debug(<< "=== DEBUG: Raw UDP Packet Received ===",
           "Source Address: " \o SourceAddress,
           "Data Length: " \o ToString(Len(message)) \o " bytes",
           "Raw Bytes (first 200): b" \o ReprStr(Take(message, RawBytesLen)),
           "Decoded Message: " \o message >>)

\* listen_udp logs the verdict of the filter (lines 844-849)
AcceptLog == Debug(<< "DEBUG: Message contains ADIF data, processing..." >>)
DiscardLog == Debug(<< "DEBUG: Message does not contain ADIF data, ignoring" >>)

\* process_qso logs its argument, the parsed fields and the contact
\* (lines 499-523)
ProcessLog(args, parsed, c) ==
  Debug(<< "=== DEBUG: Processing QSO ===",
           "Raw ADIF Data: " \o args.adif_data,
           "Parsed ADIF Fields: " \o ReprDict(parsed),
           "Contact Object: " \o ReprContact(c) >>)

\* variant of QsoLog: the line is written with debug logging only
QsoLogIfDebug(args, c) ==
  Debug(<< "QSO with " \o Str(c.call) \o " on " \o Str(c.mode) \o "/" \o Str(c.band) >>)

\* process_qso logs the contact (line 530)
QsoLog(args, c) ==
  << "QSO with " \o Str(c.call) \o " on " \o Str(c.mode) \o "/" \o Str(c.band) >>

\* process_qso logs that no upload is made (lines 537-538)
ManualLog(args) == Debug(<< "DEBUG: Auto-upload disabled, skipping upload" >>)

\* variant of RequestLog: the request is logged with the password
RequestLogWithPassword(args) ==
  Debug(<< "=== DEBUG: Upload Request ===",
           "Username: " \o args.username,
           "Password: " \o args.password,
           "ADIF Data: " \o args.adif_data >>)

\* upload_to_eqsl logs the request (lines 187-190)
RequestLog(args) ==
  Debug(<< "=== DEBUG: Upload Request ===",
           "Username: " \o args.username,
           "ADIF Data: " \o args.adif_data >>)

\* upload_to_eqsl logs the response (lines 203-206)
ResponseLog(args, body) ==
  Debug(<< "Response Status Code: " \o StatusCode(body),
           "Response Headers: " \o Headers(body),
           "Response Text: " \o body >>)

\* upload_to_eqsl logs a success (lines 203-214)
SuccessLog(args, body) ==
  ResponseLog(args, body) \o << "Upload successful" >>
    \o Debug(<< "=== DEBUG: Upload Success ===" >>)

\* upload_to_eqsl logs a rejection (lines 203-206, 218-220)
FailedLog(args, body) ==
  ResponseLog(args, body) \o << "Upload failed - " \o Take(body, FailedTextLen) >>
    \o Debug(<< "=== DEBUG: Upload Failed ===" >>)

\* upload_to_eqsl logs an exception (lines 227-231)
ErrorLog(args, cause) ==
  << "Upload error - " \o cause >>
    \o Debug(<< "=== DEBUG: Upload Exception ===",
                "Exception Type: " \o ExceptionType(cause),
                "Exception Details: " \o cause >>)

Push(st, f) == << f >> \o st
Pop(st) == Tail(st)
Top(st) == Head(st)

\* sock.bind succeeds: connection_status = "Listening", the start is logged
\* (lines 816-820)
L_bind_ok ==
  /\ alive /\ lpc = "bind"
  /\ connection_status' = "Listening"
  /\ log_file' = Log(Debug(<< "DEBUG: UDP listener started on port " \o PortText >>))
  /\ log_twin' = TwinLog(Debug(<< "DEBUG: UDP listener started on port " \o PortText >>))
  /\ lpc' = "recv"
  /\ UNCHANGED << contact_count, recent_contacts, last_contact, upload_status,
                  running, show_menu, AUTO_UPLOAD, alive, term, tty, config, stdin,
                  contact, tmp, stack, response, kpc, kold, dpc, now, accepted,
                  network, keyboard, dgramsLeft, keysLeft, ppc, adif_text, scan,
                  match, fields, DEBUG, log_writable, logsLeft >>

\* sock.bind raises: connection_status = "Error: " + str(e)[:20], then
\* sys.exit(1), which raises SystemExit in the Listener thread and ends that
\* thread (lines 821-825)
L_bind_fail ==
  /\ alive /\ lpc = "bind"
  /\ connection_status' = ErrorSummary(BindError)
  /\ log_file' = Log(Debug(<< "DEBUG: Failed to bind UDP socket: " \o BindError >>))
  /\ log_twin' = TwinLog(Debug(<< "DEBUG: Failed to bind UDP socket: " \o BindError >>))
  /\ lpc' = "bind_failed"
  /\ UNCHANGED << contact_count, recent_contacts, last_contact, upload_status,
                  running, show_menu, AUTO_UPLOAD, alive, term, tty, config, stdin,
                  contact, tmp, stack, response, kpc, kold, dpc, now, accepted,
                  network, keyboard, dgramsLeft, keysLeft, ppc, adif_text, scan,
                  match, fields, DEBUG, log_writable, logsLeft >>

\* recvfrom returns a datagram that passes the filter; process_qso parses it
\* and builds the contact (lines 830-846, 499-523)
L_recv_accept ==
  /\ alive /\ lpc = "recv" /\ dgramsLeft > 0
  /\ \E m \in network :
       /\ IsAdif(m)
       /\ contact' = Contact(m, ParseAllAdif(m), now + 1)
       /\ log_file' = Log(ReceiveLog(m) \o AcceptLog
                            \o ProcessLog(Args(m, Username, Password),
                                          ParseAllAdif(m), contact'))
       /\ log_twin' = TwinLog(ReceiveLog(m) \o AcceptLog
                                \o ProcessLog(Args(m, Username, TwinPassword),
                                              ParseAllAdif(m), contact'))
  /\ now' = now + 1
  /\ dgramsLeft' = dgramsLeft - 1
  /\ accepted' = Append(accepted, contact')
  /\ lpc' = "count_load"
  /\ UNCHANGED << contact_count, recent_contacts, last_contact, upload_status,
                  connection_status, running, show_menu, AUTO_UPLOAD, alive, term,
                  tty, config, stdin, tmp, stack, response, kpc, kold, dpc, network,
                  keyboard, keysLeft, ppc, adif_text, scan, match, fields, DEBUG,
                  log_writable, logsLeft >>

\* recvfrom returns a datagram the filter discards (lines 830-849)
L_recv_discard ==
  /\ alive /\ lpc = "recv" /\ dgramsLeft > 0
  /\ \E m \in network :
       /\ ~IsAdif(m)
       /\ log_file' = Log(ReceiveLog(m) \o DiscardLog)
       /\ log_twin' = TwinLog(ReceiveLog(m) \o DiscardLog)
  /\ now' = now + 1
  /\ dgramsLeft' = dgramsLeft - 1
  /\ UNCHANGED << contact_count, recent_contacts, last_contact, upload_status,
                  connection_status, running, show_menu, AUTO_UPLOAD, alive, term,
                  tty, config, stdin, lpc, contact, tmp, stack, response, kpc, kold,
                  dpc, accepted, network, keyboard, keysLeft, ppc, adif_text, scan,
                  match, fields, DEBUG, log_writable, logsLeft >>

\* contact_count += 1: the load (line 525)
L_count_load ==
  /\ alive /\ lpc = "count_load"
  /\ tmp' = contact_count
  /\ lpc' = "count_store"
  /\ UNCHANGED << contact_count, recent_contacts, last_contact, upload_status,
                  connection_status, running, show_menu, AUTO_UPLOAD, alive, term,
                  tty, config, stdin, contact, stack, response, kpc, kold, dpc, now,
                  accepted, network, keyboard, dgramsLeft, keysLeft, ppc, adif_text,
                  scan, match, fields, DEBUG, log_file, log_twin, log_writable,
                  logsLeft >>

\* contact_count += 1: the store (line 525)
L_count_store ==
  /\ alive /\ lpc = "count_store"
  /\ contact_count' = Increment(tmp)
  /\ lpc' = "insert"
  /\ UNCHANGED << recent_contacts, last_contact, upload_status, connection_status,
                  running, show_menu, AUTO_UPLOAD, alive, term, tty, config, stdin,
                  contact, tmp, stack, response, kpc, kold, dpc, now, accepted,
                  network, keyboard, dgramsLeft, keysLeft, ppc, adif_text, scan,
                  match, fields, DEBUG, log_file, log_twin, log_writable, logsLeft >>

\* recent_contacts.insert(0, contact) (line 526)
L_insert ==
  /\ alive /\ lpc = "insert"
  /\ recent_contacts' = InsertFront(recent_contacts, contact)
  /\ lpc' = "trunc"
  /\ UNCHANGED << contact_count, last_contact, upload_status, connection_status,
                  running, show_menu, AUTO_UPLOAD, alive, term, tty, config, stdin,
                  contact, tmp, stack, response, kpc, kold, dpc, now, accepted,
                  network, keyboard, dgramsLeft, keysLeft, ppc, adif_text, scan,
                  match, fields, DEBUG, log_file, log_twin, log_writable, logsLeft >>

\* recent_contacts = recent_contacts[:10] (line 527)
L_trunc ==
  /\ alive /\ lpc = "trunc"
  /\ recent_contacts' = Truncate(recent_contacts)
  /\ lpc' = "setlast"
  /\ UNCHANGED << contact_count, last_contact, upload_status, connection_status,
                  running, show_menu, AUTO_UPLOAD, alive, term, tty, config, stdin,
                  contact, tmp, stack, response, kpc, kold, dpc, now, accepted,
                  network, keyboard, dgramsLeft, keysLeft, ppc, adif_text, scan,
                  match, fields, DEBUG, log_file, log_twin, log_writable, logsLeft >>

\* last_contact = contact (line 528)
L_setlast ==
  /\ alive /\ lpc = "setlast"
  /\ last_contact' = Some(contact)
  /\ lpc' = "log"
  /\ UNCHANGED << contact_count, recent_contacts, upload_status, connection_status,
                  running, show_menu, AUTO_UPLOAD, alive, term, tty, config, stdin,
                  contact, tmp, stack, response, kpc, kold, dpc, now, accepted,
                  network, keyboard, dgramsLeft, keysLeft, ppc, adif_text, scan,
                  match, fields, DEBUG, log_file, log_twin, log_writable, logsLeft >>

\* log_message(f"QSO with ...") (line 530)
L_log ==
  /\ alive /\ lpc = "log"
  /\ log_file' = Log(QsoLog(Args(contact.adif, Username, Password), contact))
  /\ log_twin' = TwinLog(QsoLog(Args(contact.adif, Username, TwinPassword), contact))
  /\ lpc' = "branch"
  /\ UNCHANGED << contact_count, recent_contacts, last_contact, upload_status,
                  connection_status, running, show_menu, AUTO_UPLOAD, alive, term,
                  tty, config, stdin, contact, tmp, stack, response, kpc, kold, dpc,
                  now, accepted, network, keyboard, dgramsLeft, keysLeft, ppc,
                  adif_text, scan, match, fields, DEBUG, log_writable, logsLeft >>

\* variant of L_branch_upload: the upload is started and process_qso returns
\* to the receive loop without waiting for it
L_branch_upload_async ==
  /\ alive /\ lpc = "branch" /\ AUTO_UPLOAD
  /\ stack' = Push(stack, UploadFrame("process_qso", Args(contact.adif, Username, Password)))
  /\ lpc' = "recv"
  /\ UNCHANGED << contact_count, recent_contacts, last_contact, upload_status,
                  connection_status, running, show_menu, AUTO_UPLOAD, alive, term,
                  tty, config, stdin, contact, tmp, response, kpc, kold, dpc, now,
                  accepted, network, keyboard, dgramsLeft, keysLeft, ppc, adif_text,
                  scan, match, fields, DEBUG, log_file, log_twin, log_writable,
                  logsLeft >>

\* if AUTO_UPLOAD: upload_to_eqsl(adif_data, username, password) is called
\* (lines 532-534)
L_branch_upload ==
  /\ alive /\ lpc = "branch" /\ AUTO_UPLOAD
  /\ stack' = Push(stack, UploadFrame("process_qso", Args(contact.adif, Username, Password)))
  /\ lpc' = "u_start"
  /\ UNCHANGED << contact_count, recent_contacts, last_contact, upload_status,
                  connection_status, running, show_menu, AUTO_UPLOAD, alive, term,
                  tty, config, stdin, contact, tmp, response, kpc, kold, dpc, now,
                  accepted, network, keyboard, dgramsLeft, keysLeft, ppc, adif_text,
                  scan, match, fields, DEBUG, log_file, log_twin, log_writable,
                  logsLeft >>

\* else: upload_status = "Manual mode"; process_qso returns to the receive
\* loop (lines 532, 535-538)
L_branch_manual ==
  /\ alive /\ lpc = "branch" /\ ~AUTO_UPLOAD
  /\ upload_status' = "Manual mode"
  /\ log_file' = Log(ManualLog(Args(contact.adif, Username, Password)))
  /\ log_twin' = TwinLog(ManualLog(Args(contact.adif, Username, TwinPassword)))
  /\ lpc' = "recv"
  /\ UNCHANGED << contact_count, recent_contacts, last_contact, connection_status,
                  running, show_menu, AUTO_UPLOAD, alive, term, tty, config, stdin,
                  contact, tmp, stack, response, kpc, kold, dpc, now, accepted,
                  network, keyboard, dgramsLeft, keysLeft, ppc, adif_text, scan,
                  match, fields, DEBUG, log_writable, logsLeft >>

\* upload_status = "Uploading..." and the request is sent (lines 185-201)
U_start ==
  /\ alive /\ lpc = "u_start"
  /\ upload_status' = "Uploading..."
  /\ log_file' = Log(RequestLog(Top(stack).args))
  /\ log_twin' = TwinLog(RequestLog(Twin(Top(stack).args)))
  /\ lpc' = "u_request"
  /\ UNCHANGED << contact_count, recent_contacts, last_contact, connection_status,
                  running, show_menu, AUTO_UPLOAD, alive, term, tty, config, stdin,
                  contact, tmp, stack, response, kpc, kold, dpc, now, accepted,
                  network, keyboard, dgramsLeft, keysLeft, ppc, adif_text, scan,
                  match, fields, DEBUG, log_writable, logsLeft >>

\* variant of U_success: upload_status is left as it is. requests.post returns a body with a success marker: upload_status =
\* "Upload OK", return True (lines 208-215)
U_success_status_kept ==
  /\ alive /\ lpc = "u_request"
  /\ \E body \in Bodies :
       /\ IsSuccess(body)
       /\ response' = [kind |-> "response", text |-> body]
       /\ log_file' = Log(SuccessLog(Top(stack).args, body))
       /\ log_twin' = TwinLog(SuccessLog(Twin(Top(stack).args), body))
  /\ lpc' = "u_return"
  /\ UNCHANGED << contact_count, recent_contacts, last_contact, upload_status,
                  connection_status, running, show_menu, AUTO_UPLOAD, alive, term,
                  tty, config, stdin, contact, tmp, stack, kpc, kold, dpc, now,
                  accepted, network, keyboard, dgramsLeft, keysLeft, ppc, adif_text,
                  scan, match, fields, DEBUG, log_writable, logsLeft >>

\* requests.post returns a body with a success marker: upload_status =
\* "Upload OK", return True (lines 208-215)
U_success ==
  /\ alive /\ lpc = "u_request"
  /\ \E body \in Bodies :
       /\ IsSuccess(body)
       /\ response' = [kind |-> "response", text |-> body]
       /\ log_file' = Log(SuccessLog(Top(stack).args, body))
       /\ log_twin' = TwinLog(SuccessLog(Twin(Top(stack).args), body))
  /\ upload_status' = "Upload OK"
  /\ lpc' = "u_return"
  /\ UNCHANGED << contact_count, recent_contacts, last_contact, connection_status,
                  running, show_menu, AUTO_UPLOAD, alive, term, tty, config, stdin,
                  contact, tmp, stack, kpc, kold, dpc, now, accepted, network,
                  keyboard, dgramsLeft, keysLeft, ppc, adif_text, scan, match,
                  fields, DEBUG, log_writable, logsLeft >>

\* requests.post returns a body without a success marker: upload_status =
\* "Upload Failed", show_upload_error(response.text, ...) is called
\* (lines 208-210, 216-222)
U_rejected ==
  /\ alive /\ lpc = "u_request"
  /\ \E body \in Bodies :
       /\ ~IsSuccess(body)
       /\ response' = [kind |-> "response", text |-> body]
       /\ log_file' = Log(FailedLog(Top(stack).args, body))
       /\ log_twin' = TwinLog(FailedLog(Twin(Top(stack).args), body))
  /\ upload_status' = "Upload Failed"
  /\ stack' = Push(stack, OverlayFrame(Top(stack).args))
  /\ lpc' = "o_enter"
  /\ UNCHANGED << contact_count, recent_contacts, last_contact, connection_status,
                  running, show_menu, AUTO_UPLOAD, alive, term, tty, config, stdin,
                  contact, tmp, kpc, kold, dpc, now, accepted, network, keyboard,
                  dgramsLeft, keysLeft, ppc, adif_text, scan, match, fields, DEBUG,
                  log_writable, logsLeft >>

\* requests.post raises (transport failure, timeout): upload_status =
\* "Error: " + str(e)[:20], show_upload_error(str(e), ...) is called
\* (lines 225-233)
U_exception ==
  /\ alive /\ lpc = "u_request"
  /\ \E cause \in Causes :
       /\ response' = [kind |-> "exception", text |-> cause]
       /\ upload_status' = ErrorSummary(cause)
       /\ log_file' = Log(ErrorLog(Top(stack).args, cause))
       /\ log_twin' = TwinLog(ErrorLog(Twin(Top(stack).args), cause))
  /\ stack' = Push(stack, OverlayFrame(Top(stack).args))
  /\ lpc' = "o_enter"
  /\ UNCHANGED << contact_count, recent_contacts, last_contact, connection_status,
                  running, show_menu, AUTO_UPLOAD, alive, term, tty, config, stdin,
                  contact, tmp, kpc, kold, dpc, now, accepted, network, keyboard,
                  dgramsLeft, keysLeft, ppc, adif_text, scan, match, fields, DEBUG,
                  log_writable, logsLeft >>

\* show_upload_error, called at line 222 inside the try block, has raised:
\* the except clause sets upload_status = "Error: " + str(e)[:20] and calls
\* show_upload_error(str(e), ...) again (lines 225-233)
U_catch ==
  /\ alive /\ lpc = "u_except"
  /\ response' = [kind |-> "exception", text |-> TermiosError]
  /\ upload_status' = ErrorSummary(TermiosError)
  /\ log_file' = Log(ErrorLog(Top(stack).args, TermiosError))
  /\ log_twin' = TwinLog(ErrorLog(Twin(Top(stack).args), TermiosError))
  /\ stack' = Push(stack, OverlayFrame(Top(stack).args))
  /\ lpc' = "o_enter"
  /\ UNCHANGED << contact_count, recent_contacts, last_contact, connection_status,
                  running, show_menu, AUTO_UPLOAD, alive, term, tty, config, stdin,
                  contact, tmp, kpc, kold, dpc, now, accepted, network, keyboard,
                  dgramsLeft, keysLeft, ppc, adif_text, scan, match, fields, DEBUG,
                  log_writable, logsLeft >>

\* show_upload_error, called at line 233 inside the except clause, has raised:
\* the exception leaves upload_to_eqsl and process_qso; listen_udp catches only
\* socket.timeout and KeyboardInterrupt, so its finally clause closes the socket
\* and the Listener thread ends (lines 233, 534, 846, 851-859). Without a
\* terminal no retry key is ever read, so the frame is the one process_qso
\* called
U_raise ==
  /\ alive /\ lpc = "u_raise"
  /\ Top(stack).caller = "process_qso"
  /\ response' = NoResponse
  /\ stack' = Pop(stack)
  /\ log_file' = Log(Debug(<< "DEBUG: UDP listener stopped" >>))
  /\ log_twin' = TwinLog(Debug(<< "DEBUG: UDP listener stopped" >>))
  /\ lpc' = "l_dead"
  /\ UNCHANGED << contact_count, recent_contacts, last_contact, upload_status,
                  connection_status, running, show_menu, AUTO_UPLOAD, alive, term,
                  tty, config, stdin, contact, tmp, kpc, kold, dpc, now, accepted,
                  network, keyboard, dgramsLeft, keysLeft, ppc, adif_text, scan,
                  match, fields, DEBUG, log_writable, logsLeft >>

\* upload_to_eqsl returns to its caller, its locals are gone: process_qso
\* (line 534) and so the receive loop, or show_upload_error (line 270) and so
\* its finally clause
U_return ==
  /\ alive /\ lpc = "u_return"
  /\ response' = NoResponse
  /\ stack' = Pop(stack)
  /\ lpc' = IF Top(stack).caller = "process_qso" THEN "recv" ELSE "o_restore"
  /\ UNCHANGED << contact_count, recent_contacts, last_contact, upload_status,
                  connection_status, running, show_menu, AUTO_UPLOAD, alive, term,
                  tty, config, stdin, contact, tmp, kpc, kold, dpc, now, accepted,
                  network, keyboard, dgramsLeft, keysLeft, ppc, adif_text, scan,
                  match, fields, DEBUG, log_file, log_twin, log_writable, logsLeft >>

\* show_upload_error: show_menu = True (line 240)
O_enter ==
  /\ alive /\ lpc = "o_enter"
  /\ show_menu' = TRUE
  /\ lpc' = "o_save"
  /\ UNCHANGED << contact_count, recent_contacts, last_contact, upload_status,
                  connection_status, running, AUTO_UPLOAD, alive, term, tty, config,
                  stdin, contact, tmp, stack, response, kpc, kold, dpc, now,
                  accepted, network, keyboard, dgramsLeft, keysLeft, ppc, adif_text,
                  scan, match, fields, DEBUG, log_file, log_twin, log_writable,
                  logsLeft >>

\* old_settings = termios.tcgetattr(sys.stdin) (line 243)
O_save ==
  /\ alive /\ lpc = "o_save" /\ tty
  /\ stack' = Push(Pop(stack), [Top(stack) EXCEPT !.old = term])
  /\ lpc' = "o_panel"
  /\ UNCHANGED << contact_count, recent_contacts, last_contact, upload_status,
                  connection_status, running, show_menu, AUTO_UPLOAD, alive, term,
                  tty, config, stdin, contact, tmp, response, kpc, kold, dpc, now,
                  accepted, network, keyboard, dgramsLeft, keysLeft, ppc, adif_text,
                  scan, match, fields, DEBUG, log_file, log_twin, log_writable,
                  logsLeft >>

\* termios.tcgetattr(sys.stdin) raises termios.error, stdin not being a
\* terminal: the statement is outside the try block, so show_menu stays True
\* and the exception leaves show_upload_error; the call of line 222 (a response
\* was received) is inside upload_to_eqsl's try block, the call of line 233 is
\* not (lines 243, 222-233)
O_save_raise ==
  /\ alive /\ lpc = "o_save" /\ ~tty
  /\ stack' = Pop(stack)
  /\ lpc' = IF response.kind = "response" THEN "u_except" ELSE "u_raise"
  /\ UNCHANGED << contact_count, recent_contacts, last_contact, upload_status,
                  connection_status, running, show_menu, AUTO_UPLOAD, alive, term,
                  tty, config, stdin, contact, tmp, response, kpc, kold, dpc, now,
                  accepted, network, keyboard, dgramsLeft, keysLeft, ppc, adif_text,
                  scan, match, fields, DEBUG, log_file, log_twin, log_writable,
                  logsLeft >>

\* the error panel is printed with error_msg[:200], which is not used
\* afterwards, then tty.setcbreak(sys.stdin.fileno()) (lines 247-261)
O_panel ==
  /\ alive /\ lpc = "o_panel"
  /\ term' = "cbreak"
  /\ response' = NoResponse
  /\ lpc' = "o_read"
  /\ UNCHANGED << contact_count, recent_contacts, last_contact, upload_status,
                  connection_status, running, show_menu, AUTO_UPLOAD, alive, tty,
                  config, stdin, contact, tmp, stack, kpc, kold, dpc, now, accepted,
                  network, keyboard, dgramsLeft, keysLeft, ppc, adif_text, scan,
                  match, fields, DEBUG, log_file, log_twin, log_writable, logsLeft >>

\* variant of O_read_retry: the upload is retried whatever the key
O_read_retry_anykey ==
  /\ alive /\ lpc = "o_read" /\ stdin # << >>
  /\ stdin' = Tail(stdin)
  /\ stack' = Push(stack, UploadFrame("show_upload_error", Top(stack).args))
  /\ lpc' = "u_start"
  /\ UNCHANGED << contact_count, recent_contacts, last_contact, upload_status,
                  connection_status, running, show_menu, AUTO_UPLOAD, alive, term,
                  tty, config, contact, tmp, response, kpc, kold, dpc, now, accepted,
                  network, keyboard, dgramsLeft, keysLeft, ppc, adif_text, scan,
                  match, fields, DEBUG, log_file, log_twin, log_writable, logsLeft >>

\* variant of O_read_retry: the retry counts the record again. key = sys.stdin.read(1).lower() is 'r': "Retrying upload..." is printed,
\* sleep(1), upload_to_eqsl is called again (lines 264-270)
O_read_retry_recount ==
  /\ alive /\ lpc = "o_read" /\ stdin # << >>
  /\ Lower(Head(stdin).key) = "r"
  /\ stdin' = Tail(stdin)
  /\ stack' = Push(stack, UploadFrame("show_upload_error", Top(stack).args))
  /\ contact_count' = Increment(contact_count)
  /\ lpc' = "u_start"
  /\ UNCHANGED << recent_contacts, last_contact, upload_status, connection_status,
                  running, show_menu, AUTO_UPLOAD, alive, term, tty, config, contact,
                  tmp, response, kpc, kold, dpc, now, accepted, network, keyboard,
                  dgramsLeft, keysLeft, ppc, adif_text, scan, match, fields, DEBUG,
                  log_file, log_twin, log_writable, logsLeft >>

\* key = sys.stdin.read(1).lower() is 'r': "Retrying upload..." is printed,
\* sleep(1), upload_to_eqsl is called again (lines 264-270)
O_read_retry ==
  /\ alive /\ lpc = "o_read" /\ stdin # << >>
  /\ Lower(Head(stdin).key) = "r"
  /\ stdin' = Tail(stdin)
  /\ stack' = Push(stack, UploadFrame("show_upload_error", Top(stack).args))
  /\ lpc' = "u_start"
  /\ UNCHANGED << contact_count, recent_contacts, last_contact, upload_status,
                  connection_status, running, show_menu, AUTO_UPLOAD, alive, term,
                  tty, config, contact, tmp, response, kpc, kold, dpc, now, accepted,
                  network, keyboard, dgramsLeft, keysLeft, ppc, adif_text, scan,
                  match, fields, DEBUG, log_file, log_twin, log_writable, logsLeft >>

\* key = sys.stdin.read(1).lower() is not 'r' (lines 264-266)
O_read_dismiss ==
  /\ alive /\ lpc = "o_read" /\ stdin # << >>
  /\ Lower(Head(stdin).key) # "r"
  /\ stdin' = Tail(stdin)
  /\ lpc' = "o_restore"
  /\ UNCHANGED << contact_count, recent_contacts, last_contact, upload_status,
                  connection_status, running, show_menu, AUTO_UPLOAD, alive, term,
                  tty, config, contact, tmp, stack, response, kpc, kold, dpc, now,
                  accepted, network, keyboard, dgramsLeft, keysLeft, ppc, adif_text,
                  scan, match, fields, DEBUG, log_file, log_twin, log_writable,
                  logsLeft >>

\* finally: termios.tcsetattr(sys.stdin, TCSADRAIN, old_settings) (line 274)
O_restore ==
  /\ alive /\ lpc = "o_restore"
  /\ term' = Top(stack).old
  /\ lpc' = "o_clear"
  /\ UNCHANGED << contact_count, recent_contacts, last_contact, upload_status,
                  connection_status, running, show_menu, AUTO_UPLOAD, alive, tty,
                  config, stdin, contact, tmp, stack, response, kpc, kold, dpc, now,
                  accepted, network, keyboard, dgramsLeft, keysLeft, ppc, adif_text,
                  scan, match, fields, DEBUG, log_file, log_twin, log_writable,
                  logsLeft >>

\* show_menu = False, the cursor is hidden, show_upload_error returns and
\* upload_to_eqsl goes on to return False (lines 275-277, 223, 234)
O_clear ==
  /\ alive /\ lpc = "o_clear"
  /\ show_menu' = FALSE
  /\ stack' = Pop(stack)
  /\ lpc' = "u_return"
  /\ UNCHANGED << contact_count, recent_contacts, last_contact, upload_status,
                  connection_status, running, AUTO_UPLOAD, alive, term, tty, config,
                  stdin, contact, tmp, response, kpc, kold, dpc, now, accepted,
                  network, keyboard, dgramsLeft, keysLeft, ppc, adif_text, scan,
                  match, fields, DEBUG, log_file, log_twin, log_writable, logsLeft >>

\* parse_all_adif is called: fields = {} and re.finditer starts (lines 503, 156-158)
P_call ==
  /\ alive /\ ppc = "call"
  /\ fields' = EmptyDict
  /\ scan' = 1
  /\ ppc' = "loop"
  /\ UNCHANGED << contact_count, recent_contacts, last_contact, upload_status,
                  connection_status, running, show_menu, AUTO_UPLOAD, alive, term,
                  tty, config, stdin, lpc, contact, tmp, stack, response, kpc, kold,
                  dpc, now, accepted, network, keyboard, dgramsLeft, keysLeft,
                  adif_text, match, DEBUG, log_file, log_twin, log_writable,
                  logsLeft >>

\* one iteration of the loop of parse_all_adif: the next match, its name in
\* lower case, its declared length, its stripped text and the value stored
\* (lines 158-164)
P_match ==
  /\ alive /\ ppc = "loop"
  /\ HasMatchFrom(adif_text, scan)
  /\ LET m == MatchGroups(adif_text, NextMatch(adif_text, scan))
     IN  /\ match' = [field_name |-> Lower(m.group1),
                      length     |-> ToInt(m.group2),
                      value_text |-> Strip(m.group3),
                      value      |-> ParseValue(m.group3, ToInt(m.group2))]
         /\ fields' = ParseMatch(fields, m)
         /\ scan' = m.end
  /\ UNCHANGED << contact_count, recent_contacts, last_contact, upload_status,
                  connection_status, running, show_menu, AUTO_UPLOAD, alive, term,
                  tty, config, stdin, lpc, contact, tmp, stack, response, kpc, kold,
                  dpc, now, accepted, network, keyboard, dgramsLeft, keysLeft, ppc,
                  adif_text, DEBUG, log_file, log_twin, log_writable, logsLeft >>

\* no match is left: parse_all_adif returns fields (lines 158, 165)
P_return ==
  /\ alive /\ ppc = "loop"
  /\ ~HasMatchFrom(adif_text, scan)
  /\ ppc' = "contact"
  /\ UNCHANGED << contact_count, recent_contacts, last_contact, upload_status,
                  connection_status, running, show_menu, AUTO_UPLOAD, alive, term,
                  tty, config, stdin, lpc, contact, tmp, stack, response, kpc, kold,
                  dpc, now, accepted, network, keyboard, dgramsLeft, keysLeft,
                  adif_text, scan, match, fields, DEBUG, log_file, log_twin,
                  log_writable, logsLeft >>

\* process_qso builds the contact from fields (lines 508-520)
P_contact ==
  /\ alive /\ ppc = "contact"
  /\ contact' = Contact(adif_text, fields, now + 1)
  /\ now' = now + 1
  /\ accepted' = Append(accepted, contact')
  /\ ppc' = "done"
  /\ UNCHANGED << contact_count, recent_contacts, last_contact, upload_status,
                  connection_status, running, show_menu, AUTO_UPLOAD, alive, term,
                  tty, config, stdin, lpc, tmp, stack, response, kpc, kold, dpc,
                  network, keyboard, dgramsLeft, keysLeft, adif_text, scan, match,
                  fields, DEBUG, log_file, log_twin, log_writable, logsLeft >>

\* a call of log_message(message): the line is appended and
\* rotate_log_if_needed() is run (lines 279-287, 293-312)
T_log_message ==
  /\ alive /\ logsLeft > 0
  /\ \E n \in TrailMessageLengths : /\ log_file' = Log(<< MessageOf(n) >>)
                                    /\ log_twin' = TwinLog(<< MessageOf(n) >>)
  /\ logsLeft' = logsLeft - 1
  /\ UNCHANGED << contact_count, recent_contacts, last_contact, upload_status,
                  connection_status, running, show_menu, AUTO_UPLOAD, alive, term,
                  tty, config, stdin, lpc, contact, tmp, stack, response, kpc, kold,
                  dpc, now, accepted, network, keyboard, dgramsLeft, keysLeft, ppc,
                  adif_text, scan, match, fields, DEBUG, log_writable >>

Listener ==
  \/ L_recv_accept \/ L_recv_discard
  \/ L_count_load \/ L_count_store \/ L_insert \/ L_trunc \/ L_setlast \/ L_log
  \/ L_branch_upload \/ L_branch_manual
  \/ U_start \/ U_success \/ U_rejected \/ U_exception \/ U_return
  \/ O_enter \/ O_save \/ O_panel \/ O_read_retry \/ O_read_dismiss
  \/ O_restore \/ O_clear

(* ------------------------- Input Handler thread ------------------------ *)

\* old_settings = termios.tcgetattr(sys.stdin) (line 866)
K_save ==
  /\ alive /\ kpc = "k_save" /\ tty
  /\ kold' = term
  /\ kpc' = "k_cbreak"
  /\ UNCHANGED << contact_count, recent_contacts, last_contact, upload_status,
                  connection_status, running, show_menu, AUTO_UPLOAD, alive, term,
                  tty, config, stdin, lpc, contact, tmp, stack, response, dpc, now,
                  accepted, network, keyboard, dgramsLeft, keysLeft, ppc, adif_text,
                  scan, match, fields, DEBUG, log_file, log_twin, log_writable,
                  logsLeft >>

\* termios.tcgetattr(sys.stdin) raises termios.error, stdin not being a
\* terminal: the statement is outside the try block and the Input Handler
\* thread ends (line 866)
K_save_raise ==
  /\ alive /\ kpc = "k_save" /\ ~tty
  /\ kpc' = "k_dead"
  /\ UNCHANGED << contact_count, recent_contacts, last_contact, upload_status,
                  connection_status, running, show_menu, AUTO_UPLOAD, alive, term,
                  tty, config, stdin, lpc, contact, tmp, stack, response, kold, dpc,
                  now, accepted, network, keyboard, dgramsLeft, keysLeft, ppc,
                  adif_text, scan, match, fields, DEBUG, log_file, log_twin,
                  log_writable, logsLeft >>

\* tty.setcbreak(sys.stdin.fileno()) (line 869)
K_cbreak ==
  /\ alive /\ kpc = "k_cbreak"
  /\ term' = "cbreak"
  /\ kpc' = "select"
  /\ UNCHANGED << contact_count, recent_contacts, last_contact, upload_status,
                  connection_status, running, show_menu, AUTO_UPLOAD, alive, tty,
                  config, stdin, lpc, contact, tmp, stack, response, kold, dpc, now,
                  accepted, network, keyboard, dgramsLeft, keysLeft, ppc, adif_text,
                  scan, match, fields, DEBUG, log_file, log_twin, log_writable,
                  logsLeft >>

\* while running: select reports stdin readable (lines 871-872)
K_select ==
  /\ alive /\ kpc = "select" /\ running
  /\ stdin # << >>
  /\ kpc' = "read"
  /\ UNCHANGED << contact_count, recent_contacts, last_contact, upload_status,
                  connection_status, running, show_menu, AUTO_UPLOAD, alive, term,
                  tty, config, stdin, lpc, contact, tmp, stack, response, kold, dpc,
                  now, accepted, network, keyboard, dgramsLeft, keysLeft, ppc,
                  adif_text, scan, match, fields, DEBUG, log_file, log_twin,
                  log_writable, logsLeft >>

\* cmd = sys.stdin.read(1).lower() is 'q': running = False (lines 873-876)
K_read_q ==
  /\ alive /\ kpc = "read" /\ stdin # << >>
  /\ Lower(Head(stdin).key) = "q"
  /\ stdin' = Tail(stdin)
  /\ running' = FALSE
  /\ kpc' = "q_restore"
  /\ UNCHANGED << contact_count, recent_contacts, last_contact, upload_status,
                  connection_status, show_menu, AUTO_UPLOAD, alive, term, tty,
                  config, lpc, contact, tmp, stack, response, kold, dpc, now,
                  accepted, network, keyboard, dgramsLeft, keysLeft, ppc, adif_text,
                  scan, match, fields, DEBUG, log_file, log_twin, log_writable,
                  logsLeft >>

\* cmd = sys.stdin.read(1).lower() is 'c': show_menu = True (lines 873, 885-886)
K_read_c ==
  /\ alive /\ kpc = "read" /\ stdin # << >>
  /\ Lower(Head(stdin).key) = "c"
  /\ stdin' = Tail(stdin)
  /\ show_menu' = TRUE
  /\ kpc' = "c_restore"
  /\ UNCHANGED << contact_count, recent_contacts, last_contact, upload_status,
                  connection_status, running, AUTO_UPLOAD, alive, term, tty, config,
                  lpc, contact, tmp, stack, response, kold, dpc, now, accepted,
                  network, keyboard, dgramsLeft, keysLeft, ppc, adif_text, scan,
                  match, fields, DEBUG, log_file, log_twin, log_writable, logsLeft >>

\* cmd = sys.stdin.read(1).lower() is another key: sleep(0.1) (lines 873, 902)
K_read_other ==
  /\ alive /\ kpc = "read" /\ stdin # << >>
  /\ Lower(Head(stdin).key) \notin {"q", "c"}
  /\ stdin' = Tail(stdin)
  /\ kpc' = "select"
  /\ UNCHANGED << contact_count, recent_contacts, last_contact, upload_status,
                  connection_status, running, show_menu, AUTO_UPLOAD, alive, term,
                  tty, config, lpc, contact, tmp, stack, response, kold, dpc, now,
                  accepted, network, keyboard, dgramsLeft, keysLeft, ppc, adif_text,
                  scan, match, fields, DEBUG, log_file, log_twin, log_writable,
                  logsLeft >>

\* quit: termios.tcsetattr(sys.stdin, TCSADRAIN, old_settings) (line 877)
K_q_restore ==
  /\ alive /\ kpc = "q_restore"
  /\ term' = kold
  /\ kpc' = "q_exit"
  /\ UNCHANGED << contact_count, recent_contacts, last_contact, upload_status,
                  connection_status, running, show_menu, AUTO_UPLOAD, alive, tty,
                  config, stdin, lpc, contact, tmp, stack, response, kold, dpc, now,
                  accepted, network, keyboard, dgramsLeft, keysLeft, ppc, adif_text,
                  scan, match, fields, DEBUG, log_file, log_twin, log_writable,
                  logsLeft >>

\* quit: the final summary is printed, os._exit(0) (lines 878-883)
K_q_exit ==
  /\ alive /\ kpc = "q_exit"
  /\ alive' = FALSE
  /\ UNCHANGED << contact_count, recent_contacts, last_contact, upload_status,
                  connection_status, running, show_menu, AUTO_UPLOAD, term, tty,
                  config, stdin, lpc, contact, tmp, stack, response, kpc, kold, dpc,
                  now, accepted, network, keyboard, dgramsLeft, keysLeft, ppc,
                  adif_text, scan, match, fields, DEBUG, log_file, log_twin,
                  log_writable, logsLeft >>

\* configuration: termios.tcsetattr(sys.stdin, TCSADRAIN, old_settings), then
\* manage_credentials prints the menu (lines 888, 891, 338-355)
K_c_restore ==
  /\ alive /\ kpc = "c_restore"
  /\ term' = kold
  /\ kpc' = "m_input"
  /\ UNCHANGED << contact_count, recent_contacts, last_contact, upload_status,
                  connection_status, running, show_menu, AUTO_UPLOAD, alive, tty,
                  config, stdin, lpc, contact, tmp, stack, response, kold, dpc, now,
                  accepted, network, keyboard, dgramsLeft, keysLeft, ppc, adif_text,
                  scan, match, fields, DEBUG, log_file, log_twin, log_writable,
                  logsLeft >>

\* timed_input reads the choice: with choice 2 (new credentials entered and
\* saved with the answer to the auto-upload question) manage_credentials
\* returns True, with choice 8 and with a text that is no choice it returns
\* False (lines 357, 364, 380-392, 489-492)
K_m_choice ==
  /\ alive /\ kpc = "m_input" /\ stdin # << >>
  /\ Head(stdin).key # "3"
  /\ stdin' = Tail(stdin)
  /\ IF Head(stdin).key = "2"
     THEN /\ \E auto_upload \in BOOLEAN : config' = SavedConfig(auto_upload)
          /\ kpc' = "c_exit"
     ELSE /\ config' = config
          /\ kpc' = "c_cbreak"
  /\ UNCHANGED << contact_count, recent_contacts, last_contact, upload_status,
                  connection_status, running, show_menu, AUTO_UPLOAD, alive, term,
                  tty, lpc, contact, tmp, stack, response, kold, dpc, now, accepted,
                  network, keyboard, dgramsLeft, keysLeft, ppc, adif_text, scan,
                  match, fields, DEBUG, log_file, log_twin, log_writable, logsLeft >>

\* timed_input reads choice 3 and a configuration is saved: new_auto = not
\* saved_auto is saved and assigned to AUTO_UPLOAD, Enter is awaited and the
\* menu is shown again (lines 394-404)
K_m_toggle ==
  /\ alive /\ kpc = "m_input" /\ stdin # << >>
  /\ Head(stdin).key = "3"
  /\ config.saved
  /\ stdin' = Tail(stdin)
  /\ config' = SavedConfig(~config.auto_upload)
  /\ AUTO_UPLOAD' = ~config.auto_upload
  /\ log_file' = Log(<< "Auto-upload "
                          \o (IF ~config.auto_upload THEN "enabled" ELSE "disabled") >>)
  /\ log_twin' = TwinLog(<< "Auto-upload "
                              \o (IF ~config.auto_upload THEN "enabled" ELSE "disabled") >>)
  /\ kpc' = "m_input"
  /\ UNCHANGED << contact_count, recent_contacts, last_contact, upload_status,
                  connection_status, running, show_menu, alive, term, tty, lpc,
                  contact, tmp, stack, response, kold, dpc, now, accepted, network,
                  keyboard, dgramsLeft, keysLeft, ppc, adif_text, scan, match,
                  fields, DEBUG, log_writable, logsLeft >>

\* timed_input reads choice 3 and no configuration is saved: "No saved
\* configuration found" is printed, Enter is awaited and manage_credentials
\* returns False (lines 394-396, 405-408)
K_m_toggle_none ==
  /\ alive /\ kpc = "m_input" /\ stdin # << >>
  /\ Head(stdin).key = "3"
  /\ ~config.saved
  /\ stdin' = Tail(stdin)
  /\ kpc' = "c_cbreak"
  /\ UNCHANGED << contact_count, recent_contacts, last_contact, upload_status,
                  connection_status, running, show_menu, AUTO_UPLOAD, alive, term,
                  tty, config, lpc, contact, tmp, stack, response, kold, dpc, now,
                  accepted, network, keyboard, dgramsLeft, keysLeft, ppc, adif_text,
                  scan, match, fields, DEBUG, log_file, log_twin, log_writable,
                  logsLeft >>

\* timed_input times out: manage_credentials returns False (lines 359-362)
K_m_timeout ==
  /\ alive /\ kpc = "m_input" /\ stdin = << >>
  /\ kpc' = "c_cbreak"
  /\ UNCHANGED << contact_count, recent_contacts, last_contact, upload_status,
                  connection_status, running, show_menu, AUTO_UPLOAD, alive, term,
                  tty, config, stdin, lpc, contact, tmp, stack, response, kold, dpc,
                  now, accepted, network, keyboard, dgramsLeft, keysLeft, ppc,
                  adif_text, scan, match, fields, DEBUG, log_file, log_twin,
                  log_writable, logsLeft >>

\* should_restart: running = False, the notice is printed, os._exit(0)
\* (lines 893-896)
K_c_exit ==
  /\ alive /\ kpc = "c_exit"
  /\ running' = FALSE
  /\ alive' = FALSE
  /\ UNCHANGED << contact_count, recent_contacts, last_contact, upload_status,
                  connection_status, show_menu, AUTO_UPLOAD, term, tty, config,
                  stdin, lpc, contact, tmp, stack, response, kpc, kold, dpc, now,
                  accepted, network, keyboard, dgramsLeft, keysLeft, ppc, adif_text,
                  scan, match, fields, DEBUG, log_file, log_twin, log_writable,
                  logsLeft >>

\* tty.setcbreak(sys.stdin.fileno()) after the menu (line 899)
K_c_cbreak ==
  /\ alive /\ kpc = "c_cbreak"
  /\ term' = "cbreak"
  /\ kpc' = "c_clear"
  /\ UNCHANGED << contact_count, recent_contacts, last_contact, upload_status,
                  connection_status, running, show_menu, AUTO_UPLOAD, alive, tty,
                  config, stdin, lpc, contact, tmp, stack, response, kold, dpc, now,
                  accepted, network, keyboard, dgramsLeft, keysLeft, ppc, adif_text,
                  scan, match, fields, DEBUG, log_file, log_twin, log_writable,
                  logsLeft >>

\* show_menu = False after the menu, sleep(0.1) (lines 900-902)
K_c_clear ==
  /\ alive /\ kpc = "c_clear"
  /\ show_menu' = FALSE
  /\ kpc' = "select"
  /\ UNCHANGED << contact_count, recent_contacts, last_contact, upload_status,
                  connection_status, running, AUTO_UPLOAD, alive, term, tty, config,
                  stdin, lpc, contact, tmp, stack, response, kold, dpc, now,
                  accepted, network, keyboard, dgramsLeft, keysLeft, ppc, adif_text,
                  scan, match, fields, DEBUG, log_file, log_twin, log_writable,
                  logsLeft >>

Keyboard ==
  \/ K_save \/ K_cbreak \/ K_select
  \/ K_read_q \/ K_read_c \/ K_read_other
  \/ K_q_restore \/ K_q_exit
  \/ K_c_restore \/ K_m_choice \/ K_m_timeout
  \/ K_c_exit \/ K_c_cbreak \/ K_c_clear

(* --------------------------- Dashboard thread -------------------------- *)

\* positions of draw_status_screen from which the next step is a terminal
\* write of the frame being drawn
DrawPositions == {"top", "contacts", "footer"}

\* while running: if show_menu: sleep(0.1); continue (lines 591-594); with
\* show_menu False the frame is started (line 597)
D_test ==
  /\ alive /\ dpc = "test" /\ running
  /\ ~show_menu
  /\ dpc' = "top"
  /\ UNCHANGED << contact_count, recent_contacts, last_contact, upload_status,
                  connection_status, running, show_menu, AUTO_UPLOAD, alive, term,
                  tty, config, stdin, lpc, contact, tmp, stack, response, kpc, kold,
                  now, accepted, network, keyboard, dgramsLeft, keysLeft, ppc,
                  adif_text, scan, match, fields, DEBUG, log_file, log_twin,
                  log_writable, logsLeft >>

\* while running ends: draw_status_screen and main return and the process
\* ends with its daemon threads (lines 591, 940-949)
D_exit ==
  /\ alive /\ dpc = "test" /\ ~running
  /\ dpc' = "done"
  /\ alive' = FALSE
  /\ UNCHANGED << contact_count, recent_contacts, last_contact, upload_status,
                  connection_status, running, show_menu, AUTO_UPLOAD, term, tty,
                  config, stdin, lpc, contact, tmp, stack, response, kpc, kold, now,
                  accepted, network, keyboard, dgramsLeft, keysLeft, ppc, adif_text,
                  scan, match, fields, DEBUG, log_file, log_twin, log_writable,
                  logsLeft >>

\* the terminal is too small: one warning line, sleep(1), continue (lines 600-604)
D_small ==
  /\ alive /\ dpc = "top"
  /\ dpc' = "test"
  /\ UNCHANGED << contact_count, recent_contacts, last_contact, upload_status,
                  connection_status, running, show_menu, AUTO_UPLOAD, alive, term,
                  tty, config, stdin, lpc, contact, tmp, stack, response, kpc, kold,
                  now, accepted, network, keyboard, dgramsLeft, keysLeft, ppc,
                  adif_text, scan, match, fields, DEBUG, log_file, log_twin,
                  log_writable, logsLeft >>

\* the screen is cleared; the header, status and clock panels are written
\* (lines 607-654)
D_top ==
  /\ alive /\ dpc = "top"
  /\ dpc' = "contacts"
  /\ UNCHANGED << contact_count, recent_contacts, last_contact, upload_status,
                  connection_status, running, show_menu, AUTO_UPLOAD, alive, term,
                  tty, config, stdin, lpc, contact, tmp, stack, response, kpc, kold,
                  now, accepted, network, keyboard, dgramsLeft, keysLeft, ppc,
                  adif_text, scan, match, fields, DEBUG, log_file, log_twin,
                  log_writable, logsLeft >>

\* the last contact panel and the recent contacts table are written (lines 658-797)
D_contacts ==
  /\ alive /\ dpc = "contacts"
  /\ dpc' = "footer"
  /\ UNCHANGED << contact_count, recent_contacts, last_contact, upload_status,
                  connection_status, running, show_menu, AUTO_UPLOAD, alive, term,
                  tty, config, stdin, lpc, contact, tmp, stack, response, kpc, kold,
                  now, accepted, network, keyboard, dgramsLeft, keysLeft, ppc,
                  adif_text, scan, match, fields, DEBUG, log_file, log_twin,
                  log_writable, logsLeft >>

\* the footer is written, stdout flushed, sleep(1) (lines 800-806)
D_footer ==
  /\ alive /\ dpc = "footer"
  /\ dpc' = "test"
  /\ UNCHANGED << contact_count, recent_contacts, last_contact, upload_status,
                  connection_status, running, show_menu, AUTO_UPLOAD, alive, term,
                  tty, config, stdin, lpc, contact, tmp, stack, response, kpc, kold,
                  now, accepted, network, keyboard, dgramsLeft, keysLeft, ppc,
                  adif_text, scan, match, fields, DEBUG, log_file, log_twin,
                  log_writable, logsLeft >>

Dashboard ==
  \/ D_test \/ D_exit \/ D_small \/ D_top \/ D_contacts \/ D_footer

(* -------------------------------- user --------------------------------- *)

\* the user types a key; forOverlay records that it is typed while the retry
\* overlay is waiting in read(1) with no earlier key pending
Type ==
  /\ alive /\ keysLeft > 0 /\ Len(stdin) < MaxPending
  /\ \E k \in keyboard :
       stdin' = Append(stdin, [key |-> k, forOverlay |-> (lpc = "o_read" /\ stdin = << >>)])
  /\ keysLeft' = keysLeft - 1
  /\ UNCHANGED << contact_count, recent_contacts, last_contact, upload_status,
                  connection_status, running, show_menu, AUTO_UPLOAD, alive, term,
                  tty, config, lpc, contact, tmp, stack, response, kpc, kold, dpc,
                  now, accepted, network, keyboard, dgramsLeft, ppc, adif_text, scan,
                  match, fields, DEBUG, log_file, log_twin, log_writable, logsLeft >>

(* --------------------------- specifications ---------------------------- *)

Next == Listener \/ Keyboard \/ Dashboard \/ Type

\* the three threads, failing uploads and a user at the keyboard
Spec == Init /\ [][Next]_vars

NextHist ==
  \/ L_recv_accept
  \/ L_count_load \/ L_count_store \/ L_insert \/ L_trunc \/ L_setlast \/ L_log
  \/ L_branch_upload \/ L_branch_manual
  \/ U_start \/ U_success \/ U_rejected \/ U_exception \/ U_return
  \/ O_enter \/ O_save \/ O_panel
  \/ K_save \/ K_cbreak
  \/ D_test \/ D_small \/ D_top \/ D_contacts \/ D_footer

\* the three threads over a long session without keys
SpecHist == InitHist /\ [][NextHist]_vars

NextRecords == Listener \/ Keyboard \/ Type

\* the Listener and the Input Handler over distinct records and look-alikes
SpecRecords == InitRecords /\ [][NextRecords]_vars

NextStartup ==
  \/ L_bind_ok \/ L_bind_fail
  \/ L_recv_accept \/ L_recv_discard
  \/ L_count_load \/ L_count_store \/ L_insert \/ L_trunc \/ L_setlast \/ L_log
  \/ L_branch_upload \/ L_branch_manual
  \/ U_start \/ U_success \/ U_rejected \/ U_exception \/ U_return
  \/ U_catch \/ U_raise
  \/ O_enter \/ O_save \/ O_save_raise \/ O_panel
  \/ K_save \/ K_save_raise \/ K_cbreak
  \/ D_test \/ D_small \/ D_top \/ D_contacts \/ D_footer

\* the three threads from the start of listen_udp, the port free or taken,
\* stdin a terminal or not
SpecStartup == InitStartup /\ [][NextStartup]_vars

NextMenu ==
  \/ Listener \/ Keyboard \/ Type
  \/ K_m_toggle \/ K_m_toggle_none

\* the Listener and the Input Handler with a user in the configuration menu
SpecMenu == InitMenu /\ [][NextMenu]_vars

NextTrail == T_log_message

\* calls of log_message onto an existing file
SpecTrail == InitTrail /\ [][NextTrail]_vars

\* main logs the start before it starts the threads (lines 935-937)
StartLog ==
  << "=== WSJT-X to eQSL.cc Uploader Started ===" >>
    \o Debug(<< "DEBUG: Debug logging is ENABLED" >>)

\* keys the user may type in a run of SpecLog: the menu, the toggle of
\* auto-upload, a retry
LogKeys == {"c", "3", "R"}

\* the start of listen_udp with LOG_FILE writable and new, debug logging on or
\* off, the port free, a user in the configuration menu
InitLog ==
  /\ InitCommon
  /\ ParserIdle
  /\ lpc = "bind"
  /\ tty = TRUE
  /\ config \in {NoConfig, SavedConfig(AUTO_UPLOAD)}
  /\ network = Messages
  /\ keyboard = LogKeys
  /\ dgramsLeft = MaxLogDatagrams
  /\ keysLeft = MaxLogKeys
  /\ DEBUG \in BOOLEAN
  /\ log_writable = TRUE
  /\ log_file = LogMessages(<< >>, StartLog)
  /\ log_twin = log_file
  /\ logsLeft = 0

NextLog ==
  \/ L_bind_ok
  \/ Listener \/ Type
  \/ K_save \/ K_cbreak \/ K_select
  \/ K_read_c \/ K_read_other
  \/ K_c_restore \/ K_m_choice \/ K_m_timeout \/ K_m_toggle \/ K_m_toggle_none
  \/ K_c_cbreak \/ K_c_clear

\* the Listener and the Input Handler writing the activity trail
SpecLog == InitLog /\ [][NextLog]_vars

NextParse == P_call \/ P_match \/ P_return \/ P_contact

\* process_qso parsing one text and building its contact
SpecParse == InitParse /\ [][NextParse]_vars

(* ------------------------------- claims -------------------------------- *)

\* frames of show_upload_error on the Listener's stack
OverlayFrames == {i \in DOMAIN stack : stack[i].fn = "show_upload_error"}

\* some invocation of show_upload_error has executed show_menu = True
\* (line 240) and has not returned yet
RetryOverlayActive == \E i \in OverlayFrames : ~(i = 1 /\ lpc = "o_enter")

\* handle_keyboard has executed show_menu = True (line 886) and
\* manage_credentials has not returned yet
MenuActive == kpc \in {"c_restore", "m_input"}

\* C1: no terminal write of the render loop happens in a state where the
\* Pause Flag show_menu is True; this holds for every write of a frame.
C1_NoRenderWriteWhilePaused ==
  [][(dpc \in DrawPositions /\ dpc' # dpc) => ~show_menu]_vars

\* C2: from the moment an overlay (retry overlay or configuration menu) is
\* entered until it returns, show_menu is True.
C2_PauseCoversOverlay ==
  (alive /\ (RetryOverlayActive \/ MenuActive)) => show_menu

\* C3: the retry overlay and the configuration menu are never active at the
\* same time.
C3_OneOverlayAtATime ==
  ~(alive /\ RetryOverlayActive /\ MenuActive)

\* C4: a key typed while the retry overlay is waiting for its key is read by
\* the overlay and by no other thread.
C4_OverlayOwnsKeystroke ==
  [][(stdin # << >> /\ Head(stdin).forOverlay /\ stdin' = Tail(stdin))
       => (lpc = "o_read" /\ lpc' # "o_read")]_vars

\* C5: in every reachable state recent_contacts has at most 10 entries.
C5_HistoryBound == Len(recent_contacts) <= HistoryMax

\* the contacts whose insertion into the history is complete, oldest first
Processed ==
  IF lpc \in {"count_load", "count_store", "insert", "trunc"}
  THEN SubSeq(accepted, 1, Len(accepted) - 1)
  ELSE accepted

\* the n most recent of seq, newest first
NewestFirst(seq, n) ==
  [i \in 1..(IF Len(seq) < n THEN Len(seq) ELSE n) |-> seq[Len(seq) + 1 - i]]

\* C6: after M records have been processed recent_contacts holds the
\* min(M, 10) most recently processed ones, newest first.
C6_HistoryContent ==
  lpc # "trunc" => recent_contacts = NewestFirst(Processed, 10)

C6_Witness ==
  /\ Len(accepted) > 10
  /\ lpc = "setlast"
  /\ Len(recent_contacts) = 10
  /\ recent_contacts[1].timestamp = 11

\* C7: contact_count never decreases and equals the number of accepted
\* records processed, whatever the other threads do.
C7_CounterMonotonic ==
  /\ [](contact_count =
          IF lpc \in {"count_load", "count_store"}
          THEN Len(accepted) - 1 ELSE Len(accepted))
  /\ [][contact_count' >= contact_count]_vars

C7_Witness ==
  /\ contact_count = 2
  /\ lpc = "insert"
  /\ dpc \in DrawPositions
  /\ kpc = "m_input"

\* positions of the Listener in the receive loop and in process_qso before
\* the upload call
ReceivePositions ==
  {"recv", "count_load", "count_store", "insert", "trunc", "setlast", "log",
   "branch"}

\* calls of upload_to_eqsl made by process_qso that have not returned
UploadChains ==
  {i \in DOMAIN stack :
     stack[i].fn = "upload_to_eqsl" /\ stack[i].caller = "process_qso"}

\* C8: at most one call chain of upload_to_eqsl is in progress, and the
\* Listener receives and processes a datagram only when no upload, retry or
\* retry overlay is in progress.
C8_UploadsSerial ==
  /\ Cardinality(UploadChains) <= 1
  /\ lpc \in ReceivePositions => stack = << >>

C8_Witness ==
  /\ Len(accepted) = 2
  /\ lpc = "count_load"
  /\ upload_status = "Upload Failed"
  /\ stack = << >>

\* the bodies of Bodies that hold 'result: 1' or 'success' in some case
SuccessBodies == {"RESULT: 1 out of 1 records added", "Upload Success"}

\* C9: an attempt is classified Success iff a response was received whose
\* body holds 'result: 1' or 'success' case-insensitively; other bodies,
\* transport failures and timeouts are classified failure.
C9_Classification ==
  response.kind # "none" =>
    IF response.kind = "response" /\ response.text \in SuccessBodies
    THEN lpc = "u_return" /\ upload_status = "Upload OK"
    ELSE lpc \in {"o_enter", "o_save", "o_panel"} /\ upload_status # "Upload OK"

C9_Witness ==
  /\ response = [kind |-> "response", text |-> "RESULT: 1 out of 1 records added"]
  /\ lpc = "u_return"

\* the failure summaries of the outcomes in Bodies and Causes
FailureSummaries ==
  {"Upload Failed", "Error: Connection refused", "Error: HTTPSConnectionPool("}

\* the failure summary of the attempt whose outcome is in response
SummaryOfResponse ==
  CASE response.kind = "response" -> "Upload Failed"
    [] response.text = "Connection refused" -> "Error: Connection refused"
    [] OTHER -> "Error: HTTPSConnectionPool("

\* C10: a failing attempt first sets upload_status to its failure summary,
\* then enters the retry overlay, and upload_to_eqsl returns only after the
\* overlay has ended.
C10_FailureOrder ==
  /\ [](/\ lpc \in {"o_enter", "o_save", "o_panel"} => upload_status = SummaryOfResponse
        /\ lpc = "o_read" => upload_status \in FailureSummaries)
  /\ [][/\ (lpc = "u_request" /\ lpc' # lpc /\ upload_status' # "Upload OK")
             => (lpc' = "o_enter" /\ upload_status' \in FailureSummaries)
        /\ (lpc # "u_return" /\ lpc' = "u_return")
             => (lpc = "o_clear" \/ (lpc = "u_request" /\ upload_status' = "Upload OK"))]_vars

C10_Witness ==
  /\ lpc = "u_return"
  /\ upload_status = "Error: HTTPSConnectionPool("
  /\ Len(stack) = 1

\* C11: whatever the outcome of the request and of the retry overlay,
\* upload_to_eqsl ends by returning to its caller: no exception leaves it.
C11_UploadNeverRaises ==
  [][(stack # << >> /\ Head(stack).fn = "upload_to_eqsl" /\ stack' = Tail(stack))
       => lpc = "u_return"]_vars

\* positions of the Listener from the end of an overlay or of an attempt back
\* to the receive loop
UnwindPositions == {"o_restore", "o_clear", "u_return"}

\* the step calls upload_to_eqsl
CallsUpload ==
  /\ Len(stack') = Len(stack) + 1
  /\ Head(stack').fn = "upload_to_eqsl"

\* the step is a read of a key by the retry overlay
OverlayReadsKey == lpc = "o_read" /\ lpc' # "o_read"

\* C12: for one accepted record upload_to_eqsl is called once by process_qso
\* and once more for each 'r' the retry overlay reads, every time with the
\* record text, username and password of that record; no call is made
\* without such a key and another key ends the chain of attempts.
C12_RetriesUserDriven ==
  /\ [](\A i \in DOMAIN stack :
          stack[i].args = Args(contact.adif, Username, Password))
  /\ [][/\ CallsUpload =>
             \/ lpc = "branch" /\ stack = << >>
             \/ OverlayReadsKey /\ Lower(Head(stdin).key) = "r"
        /\ (OverlayReadsKey /\ Lower(Head(stdin).key) = "r") => CallsUpload
        /\ (OverlayReadsKey /\ Lower(Head(stdin).key) # "r") => lpc' = "o_restore"
        /\ lpc \in UnwindPositions =>
             /\ lpc' \in UnwindPositions \cup {"recv"}
             /\ Len(stack') <= Len(stack)]_vars

C12_Witness ==
  /\ Len(stack) = 5
  /\ lpc = "u_start"
  /\ contact.adif = "<CALL:4>W1AW<MODE:2>CW"

\* C13: when the last of the nested retry overlays returns, after a dismissal
\* or a successful retry, the terminal settings are those the first overlay
\* saved and show_menu is False, so that the Dashboard's next test of
\* show_menu lets it repaint.
C13_OverlayLeavesTerminalRestored ==
  [][(lpc = "o_clear" /\ lpc' = "u_return" /\ Len(stack) = 2)
       => (term' = Head(stack).old /\ ~show_menu')]_vars

\* C14: a datagram is passed to process_qso only if its text holds a
\* complete '<name:length>' tag; a text that only holds '<', ':' and '>' is
\* discarded.
C14_FilterRequiresTag ==
  [][Len(accepted') > Len(accepted) => HasTag(accepted'[Len(accepted')].adif)]_vars

\* C15: the Listener thread is never ended by a datagram: whatever becomes of
\* the datagram and of its upload, the thread stays in its receive loop.
C15_ListenerSurvivesDatagrams == lpc # "l_dead"

\* C16: after a failed bind the process terminates: neither the Dashboard nor
\* the Input Handler takes another step.
C16_BindFailureFatal ==
  [][lpc = "bind_failed" => (dpc' = dpc /\ kpc' = kpc)]_vars

\* the Listener goes round its loop to a new receive call: process_qso has
\* returned, or the datagram was discarded
StartsReceive ==
  \/ lpc # "recv" /\ lpc' = "recv"
  \/ lpc = "recv" /\ lpc' = "recv" /\ now' # now

\* C17: once running is False the Listener starts no new receive call: the
\* call in progress may end, then the loop is left.
C17_ListenerObservesRunning ==
  [][(alive /\ ~running) => ~StartsReceive]_vars

\* positions of the Input Handler after it has read 'q' and set running
\* False (line 876)
QuitPositions == {"q_restore", "q_exit"}

\* C18: once the Input Handler has read 'q', the process ends by the Input
\* Handler's own exit, reached after the terminal settings are restored and
\* with the final summary printed, and by no other way.
C18_QuitSequence ==
  [][(kpc \in QuitPositions /\ alive /\ ~alive') => (kpc = "q_exit" /\ dpc' = dpc)]_vars

\* C19: when the Input Handler reads 'c' it sets show_menu before the menu is
\* printed; when the menu asks for a restart the process ends with show_menu
\* still True, nothing having cleared it since: the flag that keeps the
\* Dashboard from repainting.
C19_RestartKeepsPause ==
  [][/\ (kpc = "read" /\ kpc' = "c_restore") => show_menu'
     /\ (kpc = "c_exit" /\ alive /\ ~alive') => show_menu]_vars

\* the step is the configuration menu reading choice 3 (toggle auto-upload)
MenuReadsToggle ==
  /\ kpc = "m_input" /\ stdin # << >> /\ Head(stdin).key = "3"
  /\ stdin' = Tail(stdin)
  /\ lpc' = lpc

\* C20: every time the user chooses the auto-upload toggle in the
\* configuration menu, AUTO_UPLOAD becomes the opposite of what it was.
C20_ToggleFlipsFlag ==
  [][MenuReadsToggle => AUTO_UPLOAD' = ~AUTO_UPLOAD]_vars

\* C21: for every accepted record whose text carries both a time_off field
\* and a time_on field, the time stored in the contact is the parsed time_off
\* value, whatever that value is, an empty value included.
C21_TimePreference ==
  (ppc = "done" /\ HasKey(fields, "time_off") /\ HasKey(fields, "time_on"))
    => contact.time_on = Some(DictGet(fields, "time_off"))

\* C22: parse_all_adif returns a mapping for every text, the empty mapping
\* exactly when the text holds no tag; every value stored is the value of the
\* mapping under its field name and is never longer than its declared length;
\* when the declared length is not shorter than the text that follows the tag
\* (up to the next '<', stripped), the value is that text.
C22_TruncationSafety ==
  /\ ppc \in {"contact", "done"} => (fields = EmptyDict <=> ~HasTag(adif_text))
  /\ match # None =>
       /\ HasKey(fields, match.field_name)
       /\ DictGet(fields, match.field_name) = match.value
       /\ Len(match.value) <= match.length
       /\ match.length >= Len(match.value_text) => match.value = match.value_text

\* parse_all_adif has returned call = 'K5JCJ' for '<call:100>K5JCJ'
C22_Witness ==
  /\ ppc = "done"
  /\ adif_text = "<call:100>K5JCJ"
  /\ match # None /\ match.length = 100
  /\ fields = << [key |-> "call", value |-> "K5JCJ"] >>

\* C23: every value of the mapping that parse_all_adif builds has no leading
\* and no trailing white space, whatever the text and the declared lengths.
C23_ValuesStripped ==
  \A n \in 1..Len(fields) : fields[n].value = Strip(fields[n].value)

\* the step is a call of log_message
LogCall == logsLeft' = logsLeft - 1

HasLine(file, message) == \E n \in 1..Len(file) : file[n] = LogLine(message)

\* the lines a step appends to a file that is not rotated
Appended(before, after) == SubSeq(after, Len(before) + 1, Len(after))

\* no line of the sequence contains the text
NoLineContains(lines, text) == \A n \in 1..Len(lines) : ~Contains(lines[n], text)

\* C25: no line of the activity trail contains the password, neither the
\* lines main writes at the start nor a line appended later, with debug
\* logging on or off and after every upload outcome; and the run that differs
\* in the password only writes the same trail (the timestamps, the datagrams,
\* the keys and the responses of the service being those of this run).
C25_PasswordNotInTrail ==
  /\ NoLineContains(log_file, Password)
  /\ [](log_twin = log_file)
  /\ [][/\ NoLineContains(Appended(log_file, log_file'), Password)
        /\ NoLineContains(Appended(log_twin, log_twin'), TwinPassword)]_vars

\* with debug logging on, a request was logged and rejected, the user asked
\* for a retry and the retry succeeded
C25_Witness ==
  /\ DEBUG
  /\ HasLine(log_file, "Username: " \o Username)
  /\ \E body \in Bodies : HasLine(log_file, "Upload failed - " \o Take(body, FailedTextLen))
  /\ HasLine(log_file, "Upload successful")

\* the statements process_qso executes after it has built the contact, in
\* program order (lines 525-532)
PipelineOrder ==
  << "count_load", "count_store", "insert", "trunc", "setlast", "log", "branch" >>

\* the Listener thread takes a step
ListenerStep == lpc' # lpc

\* C26: for every accepted datagram the Listener performs, in this order and
\* with no other step of its own in between, the state update (the counter
\* is incremented, the record is inserted at the head of the history, the
\* history is cut, last_contact is assigned), then a call of log_message that
\* appends one 'QSO with ...' line, then the test of AUTO_UPLOAD as it is at
\* that moment: if it is True, upload_to_eqsl is called with the text of the
\* datagram, otherwise no call is made and upload_status becomes
\* 'Manual mode'.
C26_PipelineOrder ==
  [][ListenerStep =>
       /\ (lpc = "recv" /\ accepted' # accepted) =>
            (lpc' = PipelineOrder[1] /\ contact'.adif = accepted'[Len(accepted')].adif)
       /\ \A i \in 1..(Len(PipelineOrder) - 1) :
            lpc = PipelineOrder[i] => lpc' = PipelineOrder[i + 1]
       /\ lpc \in {"count_load", "count_store"} =>
            (contact_count' = contact_count + (IF lpc = "count_store" THEN 1 ELSE 0))
       /\ lpc = "insert" =>
            (recent_contacts' # << >> /\ Head(recent_contacts') = contact)
       /\ lpc = "setlast" => last_contact' = Some(contact)
       /\ lpc \in {"count_load", "count_store", "insert", "trunc", "setlast"} =>
            (log_file' = log_file /\ stack' = stack /\ upload_status' = upload_status)
       /\ lpc = "log" =>
            /\ log_file' = Append(log_file,
                                  LogLine("QSO with " \o Str(contact.call) \o " on "
                                            \o Str(contact.mode) \o "/"
                                            \o Str(contact.band)))
            /\ stack' = stack /\ upload_status' = upload_status
            /\ contact_count' = contact_count /\ recent_contacts' = recent_contacts
            /\ last_contact' = last_contact
       /\ lpc = "branch" =>
            IF AUTO_UPLOAD
            THEN /\ lpc' = "u_start"
                 /\ stack' = << UploadFrame("process_qso",
                                            Args(contact.adif, Username, Password)) >>
                 /\ upload_status' = upload_status
            ELSE /\ lpc' = "recv"
                 /\ stack' = << >>
                 /\ upload_status' = "Manual mode"]_vars

\* auto-upload was switched off in the menu after process_qso had logged the
\* record and before it tested AUTO_UPLOAD: the record, counted and at the head
\* of the history, ended in manual mode with no upload call
C26_Witness ==
  /\ lpc = "recv" /\ Len(accepted) = 1
  /\ upload_status = "Manual mode" /\ stack = << >>
  /\ contact_count = 1 /\ recent_contacts = << contact >> /\ last_contact = Some(contact)
  /\ DEBUG /\ Len(log_file) >= 3
  /\ SubSeq(log_file, Len(log_file) - 2, Len(log_file))
       = << LogLine("QSO with K5JCJ on FT8/20m"),
            LogLine("Auto-upload disabled"),
            LogLine("DEBUG: Auto-upload disabled, skipping upload") >>

\* C27: contact_count, recent_contacts, last_contact and upload_status are
\* changed by steps of the Listener thread only, a step of the Dashboard
\* thread changes no shared field, and show_menu is changed by steps of the
\* Input Handler thread only.
C27_SingleWriter ==
  [][/\ (\/ contact_count' # contact_count
         \/ recent_contacts' # recent_contacts
         \/ last_contact' # last_contact
         \/ upload_status' # upload_status) => (lpc' # lpc /\ kpc' = kpc /\ dpc' = dpc)
     /\ dpc' # dpc =>
          /\ contact_count' = contact_count /\ recent_contacts' = recent_contacts
          /\ last_contact' = last_contact /\ upload_status' = upload_status
          /\ connection_status' = connection_status /\ running' = running
          /\ show_menu' = show_menu /\ AUTO_UPLOAD' = AUTO_UPLOAD
     /\ show_menu' # show_menu => (kpc' # kpc /\ lpc' = lpc /\ dpc' = dpc)]_vars

\* positions of the Input Handler between show_menu = True (line 886) and
\* show_menu = False (line 900)
MenuPositions == {"c_restore", "m_input", "c_exit", "c_cbreak", "c_clear"}

\* C28: whenever the process is running, no call of show_upload_error is in
\* progress and the Input Handler is not in the configuration menu, show_menu
\* is False, whichever way the overlays were left.
C28_PauseNeverLeftSet ==
  (alive /\ OverlayFrames = {} /\ kpc \notin MenuPositions) => ~show_menu

\* positions of the Listener inside the state update of process_qso: the
\* counter is loaded and not yet stored, or a statement of lines 525-528 is
\* still to come
UpdatePositions == {"count_store", "insert", "trunc", "setlast"}

\* C29: whenever the Listener is not inside the state update of process_qso,
\* recent_contacts holds min(contact_count, 10) records and, if a record was
\* counted, last_contact is the record at the head of recent_contacts; before
\* the first record the counter is 0, the history is empty and last_contact
\* is None.
C29_SessionStateConsistent ==
  lpc \notin UpdatePositions =>
    /\ Len(recent_contacts) = Min(contact_count, HistoryMax)
    /\ contact_count > 0 => last_contact = Some(recent_contacts[1])
    /\ contact_count = 0 => (recent_contacts = << >> /\ last_contact = None)

\* the eleventh record has been counted, inserted and assigned, and the
\* history holds ten records
C29_Witness ==
  /\ lpc = "log"
  /\ contact_count = HistoryMax + 1
  /\ Len(recent_contacts) = HistoryMax
  /\ last_contact = Some(contact)
  /\ contact.timestamp = HistoryMax + 1

\* the status that reflects the attempt whose outcome is in response
StatusOfResponse ==
  IF response.kind = "response" /\ response.text \in SuccessBodies
  THEN "Upload OK"
  ELSE SummaryOfResponse

\* C30: when a call of upload_to_eqsl returns, upload_status is not
\* 'Uploading...': it is the status of the last attempt made, 'Upload OK' if
\* that attempt was classified Success and its failure summary otherwise.
\* Every attempt ends in a classification that sets the status of that
\* attempt; from there to the return of the call made by process_qso only
\* the start of a retry changes upload_status, and a retry is an attempt.
C30_FinalStatusOfLastAttempt ==
  /\ [](lpc = "u_return" =>
          /\ upload_status # "Uploading..."
          /\ upload_status \in {"Upload OK"} \cup FailureSummaries
          /\ response.kind # "none" => upload_status = StatusOfResponse)
  /\ [][/\ (lpc = "u_start" /\ lpc' # lpc) =>
             (lpc' = "u_request" /\ upload_status' = "Uploading...")
        /\ (lpc = "u_request" /\ lpc' # lpc) =>
             /\ response'.kind # "none"
             /\ upload_status' = StatusOfResponse'
             /\ upload_status' = "Upload OK" <=> lpc' = "u_return"
        /\ upload_status' # upload_status =>
             lpc \in {"u_start", "u_request", "branch"}]_vars

\* the first attempt failed, the user asked for a retry, the retry succeeded,
\* and the call made by process_qso is about to return with 'Upload OK'
C30_Witness ==
  /\ lpc = "u_return" /\ Len(stack) = 1
  /\ Head(stack).caller = "process_qso"
  /\ response.kind = "none"
  /\ upload_status = "Upload OK"

\* the Listener is in upload_to_eqsl or in the retry overlay, before or after
\* the step
InUpload == stack # << >> \/ stack' # << >>

\* the record process_qso is at work on is counted once, is the newest record
\* of the history, in which it stands once, and is last_contact
Accounted ==
  /\ contact_count = Len(accepted)
  /\ recent_contacts # << >> /\ Head(recent_contacts) = contact
  /\ Cardinality({i \in DOMAIN recent_contacts : recent_contacts[i] = contact}) = 1
  /\ last_contact = Some(contact)

\* C31: contact_count, recent_contacts and last_contact are updated before
\* upload_to_eqsl is called, and no step taken while the Listener is in
\* upload_to_eqsl or in the retry overlay changes them: whether the upload
\* succeeds, fails, is retried or is dismissed, the record is counted once
\* and stays at the head of the history.
C31_AccountingIndependentOfUpload ==
  /\ [](stack # << >> => Accounted)
  /\ [][InUpload =>
          /\ contact_count' = contact_count
          /\ recent_contacts' = recent_contacts
          /\ last_contact' = last_contact]_vars
  /\ [][(stack = << >> /\ stack' # << >>) => (lpc = "branch" /\ Accounted)]_vars
  /\ [][(stack # << >> /\ stack' = << >>) => Accounted']_vars

\* the upload of the first record failed, the user asked for a retry, the
\* retry failed too and its overlay waits for a key: the record is counted
\* once and is the only record of the history
C31_Witness ==
  /\ Len(stack) = 4 /\ lpc = "o_read"
  /\ upload_status \in FailureSummaries
  /\ contact_count = 1
  /\ recent_contacts = << contact >>
  /\ last_contact = Some(contact)

====
